---- MODULE Spec2Model ----
(***************************************************************************)
(* A model of the AI Chat Exporter browser extension: the CSV encoder, the *)
(* ChatGPT / Claude / Copilot normalizers, the background orchestrator     *)
(* (handleConversationData), the content scripts and the popup export      *)
(* flow.  Strings are sequences of one-character strings, JavaScript       *)
(* values are tagged records.                                              *)
(***************************************************************************)
EXTENDS Integers, Sequences, FiniteSets, TLC

VARIABLES
    csvTable,      \* which CSV file the field was written to ("none" before)
    csvValue,      \* the raw field value handed to the encoder
    csvOut,        \* the text the encoder emitted for it
    csvFile,       \* the text of the file generated around that field
    csvInput,      \* the conversation or page a file is generated from
    scraped,       \* DOM scraper: the messages extractMessages returned
    page,          \* ChatGPT page script: capturedIds, capturedHeaders, the URL,
                   \* its fetches in flight, the window messages it posted
    exContent,     \* the content object handed to text extraction
    exImpl,        \* which extractTextFromContent ran ("none" before)
    exResult,      \* its outcome: a string, or a thrown TypeError
    bgLast,        \* background: what the last handleConversationData call did
    timers,        \* background: download timers not fired yet, in the order set
    downloads,     \* files whose download the browser has started
    now,           \* Date.now(), in milliseconds
    popup,         \* popup: state.export, state.status, state.platform, its timers
    exportRateLimit, \* popup: lastExport and recentExports
    popupAwait,    \* popup: settlement of the awaited tabs.sendMessage
    secretKey,     \* ChatGPT content script: SECRET_KEY (null until generated)
    capturedConversations,  \* ChatGPT content script: Map id -> conversation data
    conversationTimestamps, \* ChatGPT content script: Map id -> time stored
    verifying,     \* ChatGPT content script: listener calls suspended at their await
    claudeConversations,    \* Claude content script: Map id -> conversation data
    history,       \* history variable (no program state): the window messages the
                   \* ChatGPT listener accepted that are not older than maxAge,
                   \* when each conversation was last served to an export
                   \* request, the times of the export clicks the open popup
                   \* accepted, and what became of its last click
    tabInbox,      \* tabs.sendMessage requests on their way to a content script
    bgInbox,       \* runtime.sendMessage messages on their way to the background
    forwardSettled \* settled runtime.sendMessage promises of the export handlers

csvVars == <<csvTable, csvValue, csvOut, csvFile, csvInput, scraped, page>>
exVars == <<exContent, exImpl, exResult>>
bgVars == <<bgLast, timers, downloads>>
popupVars == <<popup, exportRateLimit, popupAwait>>
cacheVars == <<secretKey, capturedConversations, conversationTimestamps, verifying,
               claudeConversations>>
contentVars == <<secretKey, capturedConversations, conversationTimestamps, verifying,
                 claudeConversations, history>>
channelVars == <<tabInbox, bgInbox, forwardSettled>>
flowVars == <<now, popupVars, contentVars, channelVars>>
vars == <<csvVars, exVars, bgVars, flowVars>>

(***************************************************************************)
(* Bounds                                                                  *)
(***************************************************************************)
MaxFieldLen == 2
MaxNum == 1
MaxParts == 2
MaxNodes == 2

(***************************************************************************)
(* JavaScript values and strings                                           *)
(***************************************************************************)
Chars == {"=", "+", "-", "@", "\t", "\r", ",", "\"", "\n", "'", "a"}

StrsUpTo(n) == UNION {[1..k -> Chars] : k \in 0..n}

JsNull == [t |-> "null", s |-> <<>>, n |-> 0]
JsStr(s) == [t |-> "str", s |-> s, n |-> 0]
JsBool(b) == [t |-> "bool", s |-> <<>>, n |-> IF b THEN 1 ELSE 0]
JsNum(n) == [t |-> "num", s |-> <<>>, n |-> n]

Digit(d) == <<CASE d = 0 -> "0" [] d = 1 -> "1" [] d = 2 -> "2" [] d = 3 -> "3"
                [] d = 4 -> "4" [] d = 5 -> "5" [] d = 6 -> "6" [] d = 7 -> "7"
                [] d = 8 -> "8" [] OTHER -> "9">>

RECURSIVE NatToStr(_)
NatToStr(n) == IF n < 10 THEN Digit(n) ELSE NatToStr(n \div 10) \o Digit(n % 10)

\* String(value) of JavaScript, for the value kinds that reach the encoder.
String(value) ==
    CASE value.t = "str" -> value.s
      [] value.t = "bool" -> IF value.n = 1 THEN <<"t", "r", "u", "e">>
                                            ELSE <<"f", "a", "l", "s", "e">>
      [] value.t = "num" -> IF value.n < 0 THEN <<"-">> \o NatToStr(-value.n)
                                           ELSE NatToStr(value.n)
      [] OTHER -> <<"n", "u", "l", "l">>

startsWith(s, c) == Len(s) > 0 /\ s[1] = c
includes(s, c) == \E i \in 1..Len(s) : s[i] = c

\* stringValue.replace(/"/g, '""')
RECURSIVE replaceQuotes(_)
replaceQuotes(s) ==
    IF s = <<>> THEN <<>>
    ELSE (IF Head(s) = "\"" THEN <<"\"", "\"">> ELSE <<Head(s)>>) \o replaceQuotes(Tail(s))

(***************************************************************************)
(* CSV encoder                                                             *)
(***************************************************************************)
dangerousChars == {"=", "+", "-", "@", "\t", "\r"}

\* background script: injection guard, then RFC 4180 quoting
escapeCSVField(value) ==
    IF value.t = "null" THEN <<>>
    ELSE LET raw == String(value)
             stringValue == IF \E c \in dangerousChars : startsWith(raw, c)
                            THEN <<"'">> \o raw ELSE raw
         IN IF includes(stringValue, ",") \/ includes(stringValue, "\"")
               \/ includes(stringValue, "\n") \/ includes(stringValue, "\r")
            THEN <<"\"">> \o replaceQuotes(stringValue) \o <<"\"">>
            ELSE stringValue

\* ChatGPT extractor module: quoting only (comma, quote, newline)
extractorEscapeCSVField(value) ==
    IF value.t = "null" THEN <<>>
    ELSE LET stringValue == String(value)
         IN IF includes(stringValue, ",") \/ includes(stringValue, "\"")
               \/ includes(stringValue, "\n")
            THEN <<"\"">> \o replaceQuotes(stringValue) \o <<"\"">>
            ELSE stringValue

\* DOM-scraping content script: String(field), quoting only (comma, quote,
\* newline)
scraperEscapeCSVField(field) ==
    LET str == String(field)
    IN IF includes(str, ",") \/ includes(str, "\"") \/ includes(str, "\n")
       THEN <<"\"">> \o replaceQuotes(str) \o <<"\"">>
       ELSE str

(***************************************************************************)
(* ChatGPT content objects and text extraction                             *)
(***************************************************************************)
JsUndef == [t |-> "undef", s |-> <<>>, n |-> 0]

\* an item of content.parts / content.thoughts: a string, null, or an object
\* whose content_type is ct and whose text (or thought content) is s
ItemStr(s) == [t |-> "str", s |-> s, ct |-> ""]
ItemNull == [t |-> "null", s |-> <<>>, ct |-> ""]
ItemObj(ct, s) == [t |-> "obj", s |-> s, ct |-> ct]

\* an optional array field: absent, or an array of items
NoArray == [present |-> FALSE, items |-> <<>>]
Array(items) == [present |-> TRUE, items |-> items]

NoContent == [content_type |-> "", parts |-> NoArray, thoughts |-> NoArray,
              text |-> JsUndef, user_profile |-> JsUndef,
              user_instructions |-> JsUndef, model_set_context |-> JsUndef,
              recap |-> JsUndef, isNull |-> TRUE]

Content(ct, parts, thoughts, text) ==
    [content_type |-> ct, parts |-> parts, thoughts |-> thoughts, text |-> text,
     user_profile |-> JsUndef, user_instructions |-> JsUndef,
     model_set_context |-> JsUndef, recap |-> JsUndef, isNull |-> FALSE]

Returned(s) == [threw |-> FALSE, text |-> s]
Thrown == [threw |-> TRUE, text |-> <<>>]

\* x || '' for an optional string field
OrEmpty(v) == IF v.t = "str" THEN v.s ELSE <<>>

RECURSIVE join(_, _)
join(strs, sep) ==
    IF strs = <<>> THEN <<>>
    ELSE IF Len(strs) = 1 THEN strs[1]
    ELSE strs[1] \o sep \o join(Tail(strs), sep)

\* Array.prototype.join's string form of one element
JoinForm(item) ==
    CASE item.t = "str" -> item.s
      [] item.t = "null" -> <<>>
      [] OTHER -> <<"[", "o", "b", "j", "e", "c", "t", " ", "O", "b", "j", "e", "c", "t", "]">>

SelectItems(items, Keep(_)) == SelectSeq(items, Keep)
MapItems(items, F(_)) == [i \in 1..Len(items) |-> F(items[i])]
HasNullItem(items) == \E i \in 1..Len(items) : items[i].t = "null"

IsTextPart(part) == part.t = "str" \/ (part.t = "obj" /\ part.ct = "text")
IsStringPart(part) == part.t = "str"
PartText(part) == part.s

\* ChatGPT extractor module
extractTextFromContent(content) ==
    IF content.isNull THEN Returned(<<>>)
    ELSE LET contentType == content.content_type IN
    IF contentType = "text" /\ content.parts.present
    THEN Returned(join(MapItems(content.parts.items, JoinForm), <<"\n">>))
    ELSE IF contentType = "multimodal_text" /\ content.parts.present
    THEN \* the filter reads part.content_type of every non-string part
         IF HasNullItem(content.parts.items) THEN Thrown
         ELSE Returned(join(MapItems(SelectItems(content.parts.items, IsTextPart), PartText),
                            <<"\n">>))
    ELSE IF contentType = "thoughts" /\ content.thoughts.present
    THEN \* the map reads thought.content of every item
         IF HasNullItem(content.thoughts.items) THEN Thrown
         ELSE Returned(join(MapItems(content.thoughts.items, PartText), <<"\n", "\n">>))
    ELSE IF contentType = "user_editable_context" THEN Returned(<<>>)
    ELSE IF contentType = "model_editable_context" THEN Returned(<<>>)
    ELSE IF contentType = "execution_output" THEN Returned(OrEmpty(content.text))
    ELSE Returned(<<>>)

\* utils/flatten.js
flattenExtractTextFromContent(content) ==
    IF content.isNull THEN Returned(<<>>)
    ELSE LET contentType == content.content_type IN
    IF contentType = "text" /\ content.parts.present
    THEN Returned(join(MapItems(content.parts.items, JoinForm), <<"\n">>))
    ELSE IF contentType = "multimodal_text" /\ content.parts.present
    THEN Returned(join(MapItems(SelectItems(content.parts.items, IsTextPart), PartText),
                       <<"\n">>))
    ELSE IF contentType = "thoughts" /\ content.thoughts.present
    THEN IF HasNullItem(content.thoughts.items) THEN Thrown
         ELSE Returned(join(MapItems(content.thoughts.items, PartText), <<"\n", "\n">>))
    ELSE IF contentType = "execution_output" THEN Returned(OrEmpty(content.text))
    ELSE IF contentType = "user_editable_context"
    THEN Returned(join(SelectSeq(<<OrEmpty(content.user_profile),
                                   OrEmpty(content.user_instructions)>>,
                                 LAMBDA x : x # <<>>), <<"\n", "\n">>))
    ELSE IF contentType = "model_editable_context"
    THEN Returned(OrEmpty(content.model_set_context))
    ELSE IF contentType = "code" THEN Returned(OrEmpty(content.text))
    ELSE IF contentType = "reasoning_recap"
    THEN IF content.parts.present
         THEN Returned(join(MapItems(content.parts.items, JoinForm), <<"\n">>))
         ELSE Returned(IF OrEmpty(content.recap) # <<>> THEN OrEmpty(content.recap)
                       ELSE OrEmpty(content.text))
    ELSE IF OrEmpty(content.text) # <<>> THEN Returned(content.text.s)
    ELSE IF content.parts.present
    THEN Returned(join(MapItems(SelectItems(content.parts.items, IsStringPart), PartText),
                       <<"\n">>))
    ELSE Returned(<<>>)

ExtractWith(impl, content) ==
    IF impl = "extractor" THEN extractTextFromContent(content)
    ELSE flattenExtractTextFromContent(content)

ContentTypes == {"text", "multimodal_text", "thoughts", "execution_output",
                 "user_editable_context", "model_editable_context", "code",
                 "reasoning_recap", "future_type"}

PartItems == {ItemStr(<<"a">>), ItemNull, ItemObj("text", <<"b">>),
              ItemObj("image_asset_pointer", <<>>)}
ThoughtItems == {ItemNull, ItemObj("", <<"a">>), ItemObj("", <<>>)}

ArraysOf(S, n) == {NoArray} \cup {Array(q) : q \in UNION {[1..k -> S] : k \in 0..n}}

OptText == {JsUndef, JsStr(<<"x">>)}

Contents ==
    {NoContent}
    \cup {Content(ct, p, th, tx) : ct \in ContentTypes, p \in ArraysOf(PartItems, MaxParts),
                                   th \in ArraysOf(ThoughtItems, MaxParts), tx \in OptText}
    \cup {[Content("user_editable_context", NoArray, NoArray, JsUndef)
             EXCEPT !.user_profile = up, !.user_instructions = ui] :
             up \in {JsUndef, JsStr(<<"p">>)}, ui \in {JsUndef, JsStr(<<"i">>)}}
    \cup {[Content("model_editable_context", NoArray, NoArray, JsUndef)
             EXCEPT !.model_set_context = JsStr(<<"m">>)]}
    \cup {[Content("reasoning_recap", NoArray, NoArray, tx)
             EXCEPT !.recap = JsStr(<<"r">>)] : tx \in OptText}

(***************************************************************************)
(* Conversation payloads                                                   *)
(***************************************************************************)
\* an optional top-level collection: absent, a non-collection value (a
\* string), or a collection of entries in iteration order
Absent == [t |-> "absent", items |-> <<>>]
NotACollection == [t |-> "string", items |-> <<>>]
Collection(items) == [t |-> "object", items |-> items]

\* a node of the ChatGPT mapping: node.message may be missing
Node(role, content) == [hasMessage |-> TRUE, role |-> role, content |-> content]
EmptyNode == [hasMessage |-> FALSE, role |-> "", content |-> NoContent]

\* an entry of Claude's chat_messages (content: an array of blocks, or missing)
ClaudeMessage(sender, content) == [isNull |-> FALSE, sender |-> sender, content |-> content]
NullEntry == [isNull |-> TRUE, sender |-> "", content |-> NoArray]

\* an entry of Copilot's results (content: missing, an array of parts, or a string)
CopilotResult(authorType, content) ==
    [isNull |-> FALSE, authorType |-> authorType, content |-> content]
NullResult == [isNull |-> TRUE, authorType |-> "", content |-> Absent]

Payload(convId, mapping, chatMessages, results, size) ==
    [kind |-> "object", jsonSize |-> size, conversation_id |-> convId,
     id |-> JsUndef, uuid |-> JsUndef,
     mapping |-> mapping, chat_messages |-> chatMessages, results |-> results]
NullPayload == [Payload(JsUndef, Absent, Absent, Absent, 0) EXCEPT !.kind = "null"]
StringPayload == [Payload(JsUndef, Absent, Absent, Absent, 3) EXCEPT !.kind = "string"]

Truthy(v) == v.t = "str" /\ v.s # <<>>

(***************************************************************************)
(* ChatGPT extractor: metadata counts and message records                  *)
(***************************************************************************)
\* the mapping as the extractor iterates it: conversationData.mapping || {}
MappingNodes(data) == IF data.mapping.t = "object" THEN data.mapping.items ELSE <<>>

ContextOnlyTypes == {"user_editable_context", "model_editable_context"}

\* content?.content_type || ''
ContentTypeOf(content) == IF content.isNull THEN "" ELSE content.content_type

countMessagesByRole(nodes, role) ==
    Cardinality({i \in 1..Len(nodes) : nodes[i].hasMessage /\ nodes[i].role = role})

countAllMessages(nodes) ==
    Cardinality({i \in 1..Len(nodes) :
        /\ nodes[i].hasMessage
        /\ ~nodes[i].content.isNull
        /\ nodes[i].content.content_type \notin ContextOnlyTypes})

extractConversationMetadata(data) ==
    LET nodes == MappingNodes(data)
    IN [num_messages |-> countAllMessages(nodes),
        num_user_messages |-> countMessagesByRole(nodes, "user"),
        num_assistant_messages |-> countMessagesByRole(nodes, "assistant"),
        num_tool_messages |-> countMessagesByRole(nodes, "tool")]

NoMetadata == [num_messages |-> 0, num_user_messages |-> 0,
               num_assistant_messages |-> 0, num_tool_messages |-> 0]

Row(src, role, contentType, text) ==
    [src |-> src, role |-> role, content_type |-> contentType, text |-> text]

\* the members of a set of indices, in iteration (ascending) order
RECURSIVE InOrder(_)
InOrder(S) ==
    IF S = {} THEN <<>>
    ELSE LET m == CHOOSE x \in S : \A y \in S : x <= y
         IN <<m>> \o InOrder(S \ {m})

Normalized(rows) == [threw |-> FALSE, rows |-> rows]
NormalizerThrew == [threw |-> TRUE, rows |-> <<>>]

\* one loop with no try/catch: the first message whose text extraction
\* throws aborts the whole function
extractConversationMessages(data) ==
    LET nodes == MappingNodes(data)
        Emits(i) == nodes[i].hasMessage
                    /\ ContentTypeOf(nodes[i].content) \notin ContextOnlyTypes
        idx == InOrder({i \in 1..Len(nodes) : Emits(i)})
    IN IF \E k \in 1..Len(idx) : extractTextFromContent(nodes[idx[k]].content).threw
       THEN NormalizerThrew
       ELSE Normalized([k \in 1..Len(idx) |->
                Row(idx[k], nodes[idx[k]].role, ContentTypeOf(nodes[idx[k]].content),
                    extractTextFromContent(nodes[idx[k]].content).text)])

\* throws on a payload without mapping; otherwise metadata, then messages
extractChatGPTConversation(data) ==
    IF data.kind # "object" \/ data.mapping.t = "absent"
    THEN [threw |-> TRUE, rows |-> <<>>, metadata |-> NoMetadata, normalized |-> FALSE]
    ELSE LET m == extractConversationMessages(data)
         IN [threw |-> m.threw, rows |-> m.rows,
             metadata |-> IF m.threw THEN NoMetadata ELSE extractConversationMetadata(data),
             normalized |-> TRUE]

(***************************************************************************)
(* Claude and Copilot handlers of the background script                    *)
(***************************************************************************)
IsTextBlock(block) == block.t = "obj" /\ block.ct = "text"

\* ClaudeHandler.extractTextFromContent / CopilotHandler.extractTextFromContent
HandlerExtractText(content) ==
    IF ~content.present THEN <<>>
    ELSE join(MapItems(SelectItems(content.items, IsTextBlock), PartText), <<"\n", "\n">>)

\* per-message try/catch: an entry whose processing throws is skipped
ClaudeFlatten(data) ==
    IF data.kind # "object" \/ data.chat_messages.t # "object" THEN <<>>
    ELSE LET msgs == data.chat_messages.items
             Ok(i) == ~msgs[i].isNull
             idx == InOrder({i \in 1..Len(msgs) : Ok(i)})
         IN [k \in 1..Len(idx) |->
                Row(idx[k], msgs[idx[k]].sender, "", HandlerExtractText(msgs[idx[k]].content))]

\* result.content as the array extractTextFromContent sees
CopilotParts(content) == IF content.t = "object" THEN Array(content.items) ELSE NoArray

CopilotRole(authorType) ==
    IF authorType = "human" THEN "user"
    ELSE IF authorType = "ai" THEN "assistant" ELSE authorType

\* result.content?.filter(...) throws when content is a non-array value
CopilotFlatten(data) ==
    IF data.kind # "object" \/ data.results.t # "object" THEN <<>>
    ELSE LET res == data.results.items
             Ok(i) == ~res[i].isNull /\ res[i].content.t # "string"
             idx == InOrder({i \in 1..Len(res) : Ok(i)})
         IN [k \in 1..Len(idx) |->
                Row(idx[k], CopilotRole(res[idx[k]].authorType), "",
                    HandlerExtractText(CopilotParts(res[idx[k]].content)))]

(***************************************************************************)
(* Background script: validation and handleConversationData                *)
(***************************************************************************)
MAX_PAYLOAD_SIZE == 52428800

Valid == [isValid |-> TRUE, error |-> "none"]
Invalid(error) == [isValid |-> FALSE, error |-> error]

\* a collection field is truthy unless absent
Present(c) == c.t # "absent"

validateChatGPT(data) ==
    IF ~Present(data.mapping) /\ ~Truthy(data.conversation_id)
    THEN Invalid("ChatGPT data missing required fields (mapping or conversation_id)")
    ELSE IF Present(data.mapping) /\ data.mapping.t # "object"
    THEN Invalid("ChatGPT mapping is not an object")
    ELSE Valid

validateArray(field, missing, empty) ==
    IF field.t # "object" THEN Invalid(missing)
    ELSE IF Len(field.items) = 0 THEN Invalid(empty)
    ELSE Valid

\* variant: no size limit
validateConversationDataAnySize(data, platform) ==
    IF data.kind # "object" THEN Invalid("Data is not an object")
    ELSE IF platform = "chatgpt" THEN validateChatGPT(data)
    ELSE IF platform = "claude"
    THEN validateArray(data.chat_messages, "Claude data missing required chat_messages array",
                       "Claude chat_messages array is empty")
    ELSE IF platform = "copilot"
    THEN validateArray(data.results, "Copilot data missing required results array",
                       "Copilot results array is empty")
    ELSE Valid

validateConversationData(data, platform) ==
    IF data.kind # "object" THEN Invalid("Data is not an object")
    ELSE IF data.jsonSize > MAX_PAYLOAD_SIZE THEN Invalid("Payload too large")
    ELSE IF platform = "chatgpt" THEN validateChatGPT(data)
    ELSE IF platform = "claude"
    THEN validateArray(data.chat_messages, "Claude data missing required chat_messages array",
                       "Claude chat_messages array is empty")
    ELSE IF platform = "copilot"
    THEN validateArray(data.results, "Copilot data missing required results array",
                       "Copilot results array is empty")
    ELSE Valid

UnknownId == <<"u", "n", "k", "n", "o", "w", "n">>

\* (conversation_id || id || 'unknown').substring(0, 8)
idShort(data) ==
    LET conversationId == IF Truthy(data.conversation_id) THEN data.conversation_id.s
                          ELSE IF Truthy(data.id) THEN data.id.s
                          ELSE UnknownId
    IN SubSeq(conversationId, 1, IF Len(conversationId) < 8 THEN Len(conversationId) ELSE 8)

\* `${prefix}_${suffix}_${timestamp}.csv`, or `${prefix}_${timestamp}.csv` when
\* the suffix is empty: the parts of the name, the timestamp being the clock
\* read to the second
generateFilename(prefix, suffix, dateNow) ==
    [prefix |-> prefix, suffix |-> suffix, timestamp |-> dateNow \div 1000]

\* one entry of csvFiles: its filename and the rows its content is made of
File(prefix, data, dateNow, rows) ==
    [prefix |-> prefix, filename |-> generateFilename(prefix, idShort(data), dateNow),
     rows |-> rows]

\* what one call of handleConversationData did
Outcome(platform, data, validation, normalizer, threw, rows, metadata, csvFiles) ==
    [handled |-> TRUE, platform |-> platform, payload |-> data, validation |-> validation,
     normalizer |-> normalizer, threw |-> threw, rows |-> rows, metadata |-> metadata,
     csvFiles |-> csvFiles]

NotHandled ==
    [handled |-> FALSE, platform |-> "", payload |-> NullPayload, validation |-> Valid,
     normalizer |-> "none", threw |-> FALSE, rows |-> <<>>, metadata |-> NoMetadata,
     csvFiles |-> <<>>]

SingleTable(platform, data, normalizer, rows, dateNow) ==
    Outcome(platform, data, Valid, normalizer, FALSE, rows, NoMetadata,
            IF Len(rows) > 0
            THEN <<File(IF platform = "claude" THEN "claude_conversation"
                        ELSE "copilot_conversation", data, dateNow, rows)>>
            ELSE <<>>)

handleConversationData(platform, data, dateNow) ==
    IF data.kind = "null"
    THEN Outcome(platform, data, Invalid("not validated"), "none", FALSE, <<>>, NoMetadata, <<>>)
    ELSE LET validation == validateConversationData(data, platform) IN
    IF ~validation.isValid
    THEN Outcome(platform, data, validation, "none", FALSE, <<>>, NoMetadata, <<>>)
    ELSE IF platform = "chatgpt"
    THEN LET result == extractChatGPTConversation(data)
         IN Outcome(platform, data, validation, "extractChatGPTConversation", result.threw,
                    result.rows, result.metadata,
                    IF result.threw THEN <<>>
                    ELSE <<File("chatgpt_metadata", data, dateNow, <<result.metadata>>),
                          File("chatgpt_messages", data, dateNow, result.rows)>>)
    ELSE IF platform = "claude"
    THEN SingleTable(platform, data, "ClaudeHandler", ClaudeFlatten(data), dateNow)
    ELSE IF platform = "copilot"
    THEN SingleTable(platform, data, "CopilotHandler", CopilotFlatten(data), dateNow)
    ELSE Outcome(platform, data, validation, "none", FALSE, <<>>, NoMetadata, <<>>)

(***************************************************************************)
(* Background script: runtime.onMessage listener                           *)
(***************************************************************************)
endsWith(s, suffix) ==
    Len(s) >= Len(suffix) /\ SubSeq(s, Len(s) - Len(suffix) + 1, Len(s)) = suffix

HostChatGPT == <<"c", "h", "a", "t", "g", "p", "t", ".", "c", "o", "m">>
HostOpenAI == <<"c", "h", "a", "t", ".", "o", "p", "e", "n", "a", "i", ".", "c", "o", "m">>
HostClaude == <<"c", "l", "a", "u", "d", "e", ".", "a", "i">>
HostCopilot == <<"c", "o", "p", "i", "l", "o", "t", ".", "m", "i", "c", "r", "o", "s", "o", "f", "t", ".", "c", "o", "m">>
HostDeepSeek == <<"c", "h", "a", "t", ".", "d", "e", "e", "p", "s", "e", "e", "k", ".", "c", "o", "m">>
HostOther == <<"e", "x", "a", "m", "p", "l", "e", ".", "o", "r", "g">>

allowedDomains == {HostChatGPT, HostOpenAI, HostClaude, HostCopilot, HostDeepSeek}

DataTypes == {"CHATGPT_CONVERSATION_DATA", "CLAUDE_CONVERSATION_DATA",
              "COPILOT_CONVERSATION_DATA"}

DataTypeOf(platform) ==
    CASE platform = "chatgpt" -> "CHATGPT_CONVERSATION_DATA"
      [] platform = "claude" -> "CLAUDE_CONVERSATION_DATA"
      [] OTHER -> "COPILOT_CONVERSATION_DATA"

DefaultPlatform(type) ==
    CASE type = "CHATGPT_CONVERSATION_DATA" -> "chatgpt"
      [] type = "CLAUDE_CONVERSATION_DATA" -> "claude"
      [] OTHER -> "copilot"

\* a runtime message as the listener sees it, with its sender
RuntimeMessage(senderIsExtension, host, type, platform, payload) ==
    [senderIsExtension |-> senderIsExtension, host |-> host, type |-> type,
     platform |-> platform, payload |-> payload]

\* sender checks and type routing of the listener
ListenerAccepts(msg) ==
    /\ msg.senderIsExtension
    /\ \E domain \in allowedDomains : endsWith(msg.host, domain)
    /\ msg.type \in DataTypes

DownloadStaggerMs == 500

\* a pending setTimeout callback of handleConversationData: when it is due
\* and what its closure holds (the file, its index, the call's platform and
\* payload)
Timer(platform, data, file, index, dateNow) ==
    [due |-> dateNow + (index - 1) * DownloadStaggerMs, file |-> file, index |-> index,
     platform |-> platform, payload |-> data]

\* the listener runs handleConversationData, which schedules one download
\* timer per CSV file (index * 500 ms)
BackgroundOnMessage(msg) ==
    IF ListenerAccepts(msg)
    THEN LET platform == IF msg.platform # "" THEN msg.platform
                         ELSE DefaultPlatform(msg.type)
         IN \E outcome \in {handleConversationData(platform, msg.payload, now)} :
            /\ bgLast' = outcome
            /\ timers' = timers \o
                    [i \in 1..Len(outcome.csvFiles) |->
                        Timer(platform, msg.payload, outcome.csvFiles[i], i, now)]
            /\ UNCHANGED downloads
    ELSE UNCHANGED bgVars

\* timers fire in the order of their due times, and in the order they were
\* set when due together
NextTimer ==
    CHOOSE i \in 1..Len(timers) :
        /\ \A j \in 1..Len(timers) : timers[i].due <= timers[j].due
        /\ \A j \in 1..(i - 1) : timers[j].due > timers[i].due

Without(queue, i) == SubSeq(queue, 1, i - 1) \o SubSeq(queue, i + 1, Len(queue))

\* variant: the callback takes the file at its index from the csvFiles of the
\* latest call instead of the file it was created with
DownloadStartsLatestFiles ==
    /\ timers # <<>>
    /\ downloads' = Append(downloads,
                           IF timers[NextTimer].index <= Len(bgLast.csvFiles)
                           THEN bgLast.csvFiles[timers[NextTimer].index]
                           ELSE timers[NextTimer].file)
    /\ timers' = Without(timers, NextTimer)
    /\ UNCHANGED bgLast

\* a download timer fires and browser.downloads.download resolves
DownloadStarts ==
    /\ timers # <<>>
    /\ downloads' = Append(downloads, timers[NextTimer].file)
    /\ timers' = Without(timers, NextTimer)
    /\ UNCHANGED bgLast

\* a download timer fires and browser.downloads.download rejects
DownloadFails ==
    /\ timers # <<>>
    /\ timers' = Without(timers, NextTimer)
    /\ UNCHANGED <<bgLast, downloads>>

(***************************************************************************)
(* Inputs of the orchestrator                                              *)
(***************************************************************************)
TextA == Content("text", Array(<<ItemStr(<<"a">>)>>), NoArray, JsUndef)
NullPartContent == Content("multimodal_text", Array(<<ItemNull>>), NoArray, JsUndef)
UserContext == Content("user_editable_context", NoArray, NoArray, JsUndef)

NodeKinds ==
    {EmptyNode} \cup {Node(r, c) : r \in {"user", "assistant", "tool", "system"},
                                   c \in {TextA, NullPartContent, UserContext, NoContent}}

ClaudeKinds ==
    {NullEntry,
     ClaudeMessage("human", Array(<<ItemObj("text", <<"H", "i">>)>>)),
     ClaudeMessage("assistant", NoArray)}

CopilotKinds ==
    {NullResult,
     CopilotResult("human", Collection(<<ItemObj("text", <<"a">>)>>)),
     CopilotResult("ai", NotACollection)}

SeqsUpTo(S, n) == UNION {[1..k -> S] : k \in 0..n}

ConvIds == {JsUndef, JsStr(<<"c", "1">>)}
SmallSize == 100

ChatGPTPayloads ==
    {Payload(id, m, Absent, Absent, SmallSize) :
        id \in ConvIds,
        m \in {Absent, NotACollection} \cup {Collection(q) : q \in SeqsUpTo(NodeKinds, MaxNodes)}}

ClaudePayloads ==
    {Payload(JsUndef, Absent, c, Absent, SmallSize) :
        c \in {Absent, NotACollection} \cup {Collection(q) : q \in SeqsUpTo(ClaudeKinds, MaxNodes)}}

CopilotPayloads ==
    {Payload(JsUndef, Absent, Absent, r, SmallSize) :
        r \in {Absent, NotACollection} \cup {Collection(q) : q \in SeqsUpTo(CopilotKinds, MaxNodes)}}

PayloadsOf(platform) ==
    CASE platform = "chatgpt" -> ChatGPTPayloads
      [] platform = "claude" -> ClaudePayloads
      [] OTHER -> CopilotPayloads

Platforms == {"chatgpt", "claude", "copilot"}

\* a valid ChatGPT conversation of two messages, and odd payloads: null, a
\* string, the conversation at and over the size limit, an object over the
\* limit that has none of the required fields
PlainChatGPT ==
    Payload(JsStr(<<"c", "1">>), Collection(<<Node("user", TextA), Node("assistant", TextA)>>),
            Absent, Absent, SmallSize)
OddPayloads ==
    {NullPayload, StringPayload, PlainChatGPT,
     [PlainChatGPT EXCEPT !.jsonSize = MAX_PAYLOAD_SIZE],
     [PlainChatGPT EXCEPT !.jsonSize = MAX_PAYLOAD_SIZE + 1],
     Payload(JsUndef, Absent, Absent, Absent, MAX_PAYLOAD_SIZE + 1)}

OrchMessages ==
    UNION {{RuntimeMessage(TRUE, HostChatGPT, DataTypeOf(p), p, d) : d \in PayloadsOf(p)} :
              p \in Platforms}
    \cup {RuntimeMessage(ext, h, "CHATGPT_CONVERSATION_DATA", pf, d) :
            ext \in BOOLEAN, h \in {HostChatGPT, HostOther},
            pf \in {"chatgpt", "", "deepseek"}, d \in OddPayloads}
    \cup {RuntimeMessage(TRUE, HostChatGPT, "CONVERSATION_READY", "chatgpt", NullPayload)}

(***************************************************************************)
(* JavaScript Map: entries [key, value] in insertion order                 *)
(***************************************************************************)
MapHas(m, k) == \E i \in 1..Len(m) : m[i].key = k
MapGet(m, k) == m[CHOOSE i \in 1..Len(m) : m[i].key = k].value
MapSet(m, k, v) ==
    IF MapHas(m, k)
    THEN [i \in 1..Len(m) |-> IF m[i].key = k THEN [key |-> k, value |-> v] ELSE m[i]]
    ELSE Append(m, [key |-> k, value |-> v])
MapDelete(m, k) == SelectSeq(m, LAMBDA e : e.key # k)

(***************************************************************************)
(* MessageSecurity: signing and verification of window messages            *)
(***************************************************************************)
maxAge == 30000

\* the message object without its signature, as it is stringified for signing
MessageData(message) ==
    [type |-> message.type, payload |-> message.payload, source |-> message.source,
     platform |-> message.platform, timestamp |-> message.timestamp,
     nonce |-> message.nonce]

\* HMAC-SHA256 as an ideal MAC: two signatures are equal exactly when key
\* and signed text are equal
signMessage(messageData, secret) == [t |-> "str", key |-> secret, data |-> messageData]

verifySignature(messageData, signature, secret) ==
    signature = signMessage(messageData, secret)

\* a window message: the signed fields and the signature field
WindowMessage(type, payload, source, platform, timestamp, nonce, signature) ==
    [type |-> type, payload |-> payload, source |-> source, platform |-> platform,
     timestamp |-> timestamp, nonce |-> nonce, signature |-> signature]

NoSignature ==
    [t |-> "undef", key |-> "",
     data |-> [type |-> "", payload |-> NullPayload, source |-> "", platform |-> "",
               timestamp |-> JsUndef, nonce |-> ""]]

createSignedMessage(payload, messageType, sourceId, platform, secret, dateNow, nonce) ==
    LET messageData == [type |-> messageType, payload |-> payload, source |-> sourceId,
                        platform |-> platform, timestamp |-> JsNum(dateNow),
                        nonce |-> nonce]
    IN WindowMessage(messageType, payload, sourceId, platform, JsNum(dateNow), nonce,
                     signMessage(messageData, secret))

\* verification that accepts a timestamp of any age, past or future
verifySignedMessageAnyAge(message, expectedType, expectedSource, secret, maxAgeArg, dateNow) ==
    IF message.signature.t # "str"
    THEN Invalid("Missing or invalid signature")
    ELSE IF message.type # expectedType
    THEN Invalid("Message type mismatch")
    ELSE IF message.source # expectedSource
    THEN Invalid("Message source mismatch")
    ELSE IF message.timestamp.t # "num" \/ message.timestamp.n = 0
    THEN Invalid("Missing or invalid timestamp")
    ELSE IF ~verifySignature(MessageData(message), message.signature, secret)
    THEN Invalid("Invalid signature")
    ELSE Valid

\* dateNow is the value Date.now() returns when the function reads it
verifySignedMessage(message, expectedType, expectedSource, secret, maxAgeArg, dateNow) ==
    IF message.signature.t # "str"
    THEN Invalid("Missing or invalid signature")
    ELSE IF message.type # expectedType
    THEN Invalid("Message type mismatch")
    ELSE IF message.source # expectedSource
    THEN Invalid("Message source mismatch")
    ELSE IF message.timestamp.t # "num" \/ message.timestamp.n = 0
    THEN Invalid("Missing or invalid timestamp")
    ELSE IF dateNow - message.timestamp.n < 0 \/ dateNow - message.timestamp.n > maxAgeArg
    THEN Invalid("Message timestamp out of valid range")
    ELSE IF ~verifySignature(MessageData(message), message.signature, secret)
    THEN Invalid("Invalid signature")
    ELSE Valid

(***************************************************************************)
(* ChatGPT content script: conversation cache and window message listener  *)
(***************************************************************************)
MAX_STORED_CONVERSATIONS == 50
MAX_CONVERSATION_AGE_MS == 3600000
CLEANUP_INTERVAL_MS == 300000
MaxVerifying == 1
MaxInFlight == 1

NoKey == "null"

\* the first key of conversationTimestamps holding the smallest timestamp
OldestId(timestamps) ==
    timestamps[CHOOSE i \in 1..Len(timestamps) :
                  /\ \A j \in 1..Len(timestamps) : timestamps[i].value <= timestamps[j].value
                  /\ \A j \in 1..(i - 1) : timestamps[j].value > timestamps[i].value].key

\* storeConversation evicting the oldest conversation from the cache only
storeConversationKeepsTimestamp(conversations, timestamps, id, data, dateNow) ==
    LET evict == Len(conversations) >= MAX_STORED_CONVERSATIONS /\ Len(timestamps) > 0
        kept == IF evict THEN MapDelete(conversations, OldestId(timestamps))
                ELSE conversations
    IN [conversations |-> MapSet(kept, id, data),
        timestamps |-> MapSet(timestamps, id, dateNow)]

storeConversation(conversations, timestamps, id, data, dateNow) ==
    LET evict == Len(conversations) >= MAX_STORED_CONVERSATIONS /\ Len(timestamps) > 0
        kept == IF evict THEN MapDelete(conversations, OldestId(timestamps))
                ELSE conversations
        keptTimes == IF evict THEN MapDelete(timestamps, OldestId(timestamps))
                     ELSE timestamps
    IN [conversations |-> MapSet(kept, id, data),
        timestamps |-> MapSet(keptTimes, id, dateNow)]

\* deletes every conversation whose timestamp is more than one hour old
cleanupOldConversations(conversations, timestamps, dateNow) ==
    LET Old(id) == dateNow - MapGet(timestamps, id) > MAX_CONVERSATION_AGE_MS
    IN [conversations |-> SelectSeq(conversations,
                              LAMBDA e : ~(MapHas(timestamps, e.key) /\ Old(e.key))),
        timestamps |-> SelectSeq(timestamps, LAMBDA e : ~Old(e.key))]

\* conversationData.conversation_id || conversationData.id || 'unknown'
ChatGPTConversationId(data) ==
    IF Truthy(data.conversation_id) THEN data.conversation_id.s
    ELSE IF Truthy(data.id) THEN data.id.s
    ELSE UnknownId

\* a runtime message on its way to the background, with the callback that
\* runs when its promise settles
Sent(msg, then) == [msg |-> msg, then |-> then]

\* of the accepted messages, those the timestamp check could still let pass
StillFresh(accepted) == {m \in accepted : now - m.timestamp.n <= maxAge}

\* first half of the listener: the checks up to the await of
\* verifySignedMessage, whose timestamp check reads the clock before it
\* suspends on the HMAC computation
ChatGPTWindowMessage(data) ==
    /\ data.type = "CHATGPT_CONVERSATION_DATA"
    /\ data.source = "chatgpt-exporter-inject"
    /\ secretKey # NoKey
    /\ Cardinality(verifying) < MaxVerifying
    /\ verifying' = verifying \cup
            {[data |-> data, checkedAt |-> now,
              verification |-> verifySignedMessage(data, "CHATGPT_CONVERSATION_DATA",
                                   "chatgpt-exporter-inject", secretKey, maxAge, now)]}
    /\ UNCHANGED <<secretKey, capturedConversations, conversationTimestamps,
                   claudeConversations, history>>
    /\ UNCHANGED <<csvVars, exVars, now, popupVars, channelVars, bgVars>>

\* second half of the listener: after the await
ChatGPTVerified(call) ==
    /\ call \in verifying
    /\ Len(bgInbox) < MaxInFlight
    /\ verifying' = verifying \ {call}
    /\ IF /\ call.verification.isValid
          /\ call.data.payload.kind # "null"
          /\ Present(call.data.payload.mapping)
       THEN LET id == ChatGPTConversationId(call.data.payload)
                stored == storeConversation(capturedConversations, conversationTimestamps,
                                            id, call.data.payload, now)
            IN /\ capturedConversations' = stored.conversations
               /\ conversationTimestamps' = stored.timestamps
               /\ bgInbox' = Append(bgInbox,
                      Sent(RuntimeMessage(TRUE, HostChatGPT, "CONVERSATION_READY",
                                          "chatgpt", NullPayload), "ignore"))
               /\ history' = [history EXCEPT !.accepted = StillFresh(@) \cup {call.data}]
       ELSE UNCHANGED <<capturedConversations, conversationTimestamps, bgInbox, history>>
    /\ UNCHANGED <<secretKey, claudeConversations>>
    /\ UNCHANGED <<csvVars, exVars, now, popupVars, tabInbox, forwardSettled, bgVars>>

\* MessageSecurity.generateSecretKey() resolves
SecretKeyReady ==
    /\ secretKey = NoKey
    /\ secretKey' = "k1"
    /\ UNCHANGED <<capturedConversations, conversationTimestamps, verifying,
                   claudeConversations, history>>
    /\ UNCHANGED <<csvVars, exVars, now, popupVars, channelVars, bgVars>>

\* setInterval(cleanupOldConversations, CLEANUP_INTERVAL_MS): the content
\* script was loaded at time 0, the timer is due at every multiple
CleanupDue == now > 0 /\ now % CLEANUP_INTERVAL_MS = 0

CleanupTimerFires ==
    /\ CleanupDue
    /\ LET cleaned == cleanupOldConversations(capturedConversations,
                                               conversationTimestamps, now)
       IN /\ capturedConversations' = cleaned.conversations
          /\ conversationTimestamps' = cleaned.timestamps
    /\ UNCHANGED <<secretKey, verifying, claudeConversations, history>>
    /\ UNCHANGED <<csvVars, exVars, now, popupVars, channelVars, bgVars>>

(***************************************************************************)
(* Claude content script: window message listener                          *)
(***************************************************************************)
\* conversationData.uuid || 'unknown'
ClaudeConversationId(data) == IF Truthy(data.uuid) THEN data.uuid.s ELSE UnknownId

ClaudeWindowMessage(data) ==
    /\ data.type = "CLAUDE_CONVERSATION_DATA"
    /\ data.source = "claude-exporter-inject"
    /\ data.payload.kind # "null"
    /\ Present(data.payload.chat_messages)
    /\ Len(bgInbox) < MaxInFlight
    /\ claudeConversations' =
            MapSet(claudeConversations, ClaudeConversationId(data.payload), data.payload)
    /\ bgInbox' = Append(bgInbox,
            Sent(RuntimeMessage(TRUE, HostClaude, "CLAUDE_CONVERSATION_DATA", "claude",
                                data.payload), "log"))
    /\ UNCHANGED <<secretKey, capturedConversations, conversationTimestamps, verifying,
                   history>>
    /\ UNCHANGED <<csvVars, exVars, now, popupVars, tabInbox, forwardSettled, bgVars>>

(***************************************************************************)
(* Error texts that travel from the content script and the browser to the  *)
(* popup, and the substrings handleExportClick looks for in them           *)
(***************************************************************************)
NotFoundError ==
    <<"C", "o", "n", "v", "e", "r", "s", "a", "t", "i", "o", "n", " ", "n",
      "o", "t", " ", "f", "o", "u", "n", "d", ".", " ", "P", "l", "e", "a",
      "s", "e", " ", "w", "a", "i", "t", " ", "f", "o", "r", " ", "t", "h",
      "e", " ", "p", "a", "g", "e", " ", "t", "o", " ", "l", "o", "a", "d",
      " ", "t", "h", "e", " ", "c", "o", "n", "v", "e", "r", "s", "a", "t",
      "i", "o", "n", ".">>
ReceivingEndError ==
    <<"C", "o", "u", "l", "d", " ", "n", "o", "t", " ", "e", "s", "t", "a",
      "b", "l", "i", "s", "h", " ", "c", "o", "n", "n", "e", "c", "t", "i",
      "o", "n", ".", " ", "R", "e", "c", "e", "i", "v", "i", "n", "g", " ",
      "e", "n", "d", " ", "d", "o", "e", "s", " ", "n", "o", "t", " ", "e",
      "x", "i", "s", "t", ".">>
PermissionError ==
    <<"M", "i", "s", "s", "i", "n", "g", " ", "h", "o", "s", "t", " ", "p",
      "e", "r", "m", "i", "s", "s", "i", "o", "n", " ", "f", "o", "r", " ",
      "t", "h", "e", " ", "t", "a", "b">>
DisconnectedError ==
    <<"M", "e", "s", "s", "a", "g", "e", " ", "m", "a", "n", "a", "g", "e",
      "r", " ", "d", "i", "s", "c", "o", "n", "n", "e", "c", "t", "e", "d">>
UnknownErrorText ==
    <<"U", "n", "k", "n", "o", "w", "n", " ", "e", "r", "r", "o", "r", " ",
      "o", "c", "c", "u", "r", "r", "e", "d">>
NoDataText ==
    <<"n", "o", " ", "d", "a", "t", "a">>
NoConversationText ==
    <<"n", "o", " ", "c", "o", "n", "v", "e", "r", "s", "a", "t", "i", "o",
      "n">>
EmptyText ==
    <<"e", "m", "p", "t", "y">>
ReceivingEndText ==
    <<"R", "e", "c", "e", "i", "v", "i", "n", "g", " ", "e", "n", "d", " ",
      "d", "o", "e", "s", " ", "n", "o", "t", " ", "e", "x", "i", "s", "t">>
PermissionText ==
    <<"p", "e", "r", "m", "i", "s", "s", "i", "o", "n">>

Lower(c) ==
    CASE c = "A" -> "a"
      [] c = "B" -> "b"
      [] c = "C" -> "c"
      [] c = "D" -> "d"
      [] c = "E" -> "e"
      [] c = "F" -> "f"
      [] c = "G" -> "g"
      [] c = "H" -> "h"
      [] c = "I" -> "i"
      [] c = "J" -> "j"
      [] c = "K" -> "k"
      [] c = "L" -> "l"
      [] c = "M" -> "m"
      [] c = "N" -> "n"
      [] c = "O" -> "o"
      [] c = "P" -> "p"
      [] c = "Q" -> "q"
      [] c = "R" -> "r"
      [] c = "S" -> "s"
      [] c = "T" -> "t"
      [] c = "U" -> "u"
      [] c = "V" -> "v"
      [] c = "W" -> "w"
      [] c = "X" -> "x"
      [] c = "Y" -> "y"
      [] c = "Z" -> "z"
      [] OTHER -> c

toLowerCase(s) == [i \in 1..Len(s) |-> Lower(s[i])]

includesText(s, sub) ==
    \E i \in 0..(Len(s) - Len(sub)) : SubSeq(s, i + 1, i + Len(sub)) = sub

(***************************************************************************)
(* Popup: status, export button, error display                            *)
(***************************************************************************)
minInterval == 2000
maxExportsPerMinute == 10
RateWindowMs == 60000

\* ERROR_TYPES[errorType].message
ErrorMessage(errorType) ==
    CASE errorType = "NO_ACTIVE_TAB" -> "Unable to access current tab"
      [] errorType = "UNSUPPORTED_PLATFORM" -> "This page is not supported"
      [] errorType = "NO_CONVERSATION_ID" -> "No conversation detected"
      [] errorType = "CONTENT_SCRIPT_NOT_LOADED" -> "Extension not ready"
      [] errorType = "NO_DATA_AVAILABLE" -> "No conversation data found"
      [] errorType = "EXPORT_FAILED" -> "Export failed"
      [] errorType = "PERMISSION_DENIED" -> "Permission denied"
      [] errorType = "NETWORK_ERROR" -> "Network error"
      [] OTHER -> "An unexpected error occurred"

\* PLATFORMS[id].name
PlatformName(tab) ==
    CASE tab = "chatgpt" -> "ChatGPT"
      [] tab = "claude" -> "Claude"
      [] OTHER -> "Copilot"

ReadyMessage(tab) ==
    CASE tab = "chatgpt" -> "Ready to export ChatGPT conversation."
      [] tab = "claude" -> "Ready to export Claude conversation."
      [] OTHER -> "Ready to export Copilot conversation."

LoadingMessage(tab) ==
    CASE tab = "chatgpt" -> "Loading ChatGPT conversation data..."
      [] tab = "claude" -> "Loading Claude conversation data..."
      [] OTHER -> "Loading Copilot conversation data..."

permanentErrors == {"UNSUPPORTED_PLATFORM", "PERMISSION_DENIED"}

updateStatus(p, type, message) ==
    [p EXCEPT !.statusType = type, !.statusMessage = message]

\* updateExportButton without the call of stopPolling
updateExportButtonKeepsPolling(p, enabled) ==
    [p EXCEPT !.canExport = enabled]

\* enabling a disabled button stops the fallback polling
updateExportButton(p, enabled) ==
    [p EXCEPT !.canExport = enabled,
              !.isPolling = IF enabled /\ ~p.canExport THEN FALSE ELSE @]

\* a non-permanent error schedules a 500 ms timer that re-enables the button
displayError(p, errorType) ==
    LET shown == [updateStatus(p, "error", ErrorMessage(errorType))
                    EXCEPT !.lastError = errorType]
    IN IF errorType \notin permanentErrors
       THEN [shown EXCEPT !.reenableTimers = @ + 1]
       ELSE updateExportButton(shown, FALSE)

\* the popup after checkAndUpdateUI found the conversation of the tab's URL
\* in the content script's cache
PopupReady(tab, conversationId) ==
    [open |-> TRUE, tab |-> tab, conversationId |-> conversationId,
     isExporting |-> FALSE, canExport |-> TRUE, lastError |-> "none",
     statusType |-> "success",
     statusMessage |-> ReadyMessage(tab),
     isPolling |-> FALSE, reenableTimers |-> 0, closeTimer |-> FALSE]

\* the popup after checkAndUpdateUI found no conversation id in the tab's URL
PopupNoConversation(tab) ==
    displayError([PopupReady(tab, JsNull) EXCEPT !.canExport = FALSE, !.isPolling = TRUE,
                                                 !.statusType = "info",
                                                 !.statusMessage = ""],
                 "NO_CONVERSATION_ID")

\* the catch block of handleExportClick
ExportCatch(p, errorType) ==
    displayError(updateExportButton([p EXCEPT !.isExporting = FALSE], TRUE), errorType)

\* settlement of the popup's awaited tabs.sendMessage
Resolved(hasResponse, success, error) ==
    [settled |-> "resolved", hasResponse |-> hasResponse, success |-> success,
     error |-> error, request |-> "EXPORT_CONVERSATION", conversationIds |-> <<>>]
Rejected(error) ==
    [settled |-> "rejected", hasResponse |-> FALSE, success |-> FALSE, error |-> error,
     request |-> "EXPORT_CONVERSATION", conversationIds |-> <<>>]

\* the response to GET_CAPTURED_CONVERSATIONS: the ids of the cache, in
\* insertion order
Listed(conversationIds) ==
    [Resolved(TRUE, TRUE, <<>>) EXCEPT !.conversationIds = conversationIds]

\* the settlement as the awaiting call of that request sees it
Answer(request, settlement) == [settlement EXCEPT !.request = request.message.type]

CheckRequest(tab) ==
    [tab |-> tab,
     message |-> [type |-> "GET_CAPTURED_CONVERSATIONS", platform |-> "",
                  conversationId |-> <<>>]]

ExportRequest(tab, conversationId) ==
    [tab |-> tab,
     message |-> [type |-> "EXPORT_CONVERSATION", platform |-> tab,
                  conversationId |-> conversationId]]

\* the timestamps of recentExports that lie within the last minute
recentWithin(limit, dateNow) ==
    SelectSeq(limit.recentExports, LAMBDA timestamp : dateNow - timestamp < RateWindowMs)

\* the checks without the one of the minimum interval
RateLimitCheckPerMinuteOnly(limit, dateNow) ==
    IF Len(recentWithin(limit, dateNow)) >= maxExportsPerMinute THEN "tooMany"
    ELSE "ok"

\* the two rate-limit checks at the head of handleExportClick
RateLimitCheck(limit, dateNow) ==
    IF dateNow - limit.lastExport < minInterval THEN "tooSoon"
    ELSE IF Len(recentWithin(limit, dateNow)) >= maxExportsPerMinute THEN "tooMany"
    ELSE "ok"

\* handleExportClick without its check of state.export.isExporting
PopupExportClickReentrant ==
    /\ popup.open
    /\ popup.canExport
    /\ LET recent == recentWithin(exportRateLimit, now)
           checked == RateLimitCheck(exportRateLimit, now)
           started == updateStatus(
                          updateExportButton([popup EXCEPT !.isExporting = TRUE,
                                                           !.lastError = "none"], FALSE),
                          "loading", "Exporting conversation...")
       IN IF checked = "tooSoon"
          THEN /\ popup' = updateStatus(popup, "warning", "Please wait before exporting again")
               /\ history' = [history EXCEPT !.lastClick = "tooSoon"]
               /\ UNCHANGED <<exportRateLimit, tabInbox>>
          ELSE IF checked = "tooMany"
          THEN /\ exportRateLimit' = [exportRateLimit EXCEPT !.recentExports = recent]
               /\ popup' = updateStatus(popup, "error", "Too many exports")
               /\ history' = [history EXCEPT !.lastClick = "tooMany"]
               /\ UNCHANGED tabInbox
          ELSE /\ exportRateLimit' = [lastExport |-> now, recentExports |-> Append(recent, now)]
               /\ history' = [history EXCEPT !.clicks = Append(@, now),
                                             !.lastClick = "accepted"]
               /\ IF popup.tab = "none"
                  THEN popup' = ExportCatch(started, "NO_ACTIVE_TAB") /\ UNCHANGED tabInbox
                  ELSE IF popup.tab \notin Platforms
                  THEN popup' = ExportCatch(started, "UNSUPPORTED_PLATFORM")
                       /\ UNCHANGED tabInbox
                  ELSE IF ~Truthy(popup.conversationId)
                  THEN popup' = ExportCatch(started, "NO_CONVERSATION_ID")
                       /\ UNCHANGED tabInbox
                  ELSE /\ popup' = started
                       /\ tabInbox' = Append(tabInbox,
                              ExportRequest(popup.tab, popup.conversationId.s))
    /\ UNCHANGED <<csvVars, exVars, now, popupAwait, cacheVars, bgInbox, forwardSettled, bgVars>>

\* handleExportClick up to its await of tabs.sendMessage
PopupExportClick ==
    /\ popup.open
    /\ popup.canExport
    /\ LET recent == recentWithin(exportRateLimit, now)
           checked == RateLimitCheck(exportRateLimit, now)
           started == updateStatus(
                          updateExportButton([popup EXCEPT !.isExporting = TRUE,
                                                           !.lastError = "none"], FALSE),
                          "loading", "Exporting conversation...")
       IN IF checked = "tooSoon"
          THEN /\ popup' = updateStatus(popup, "warning", "Please wait before exporting again")
               /\ history' = [history EXCEPT !.lastClick = "tooSoon"]
               /\ UNCHANGED <<exportRateLimit, tabInbox>>
          ELSE IF checked = "tooMany"
          THEN /\ exportRateLimit' = [exportRateLimit EXCEPT !.recentExports = recent]
               /\ popup' = updateStatus(popup, "error", "Too many exports")
               /\ history' = [history EXCEPT !.lastClick = "tooMany"]
               /\ UNCHANGED tabInbox
          ELSE IF popup.isExporting
          THEN /\ exportRateLimit' = [exportRateLimit EXCEPT !.recentExports = recent]
               /\ history' = [history EXCEPT !.lastClick = "exporting"]
               /\ UNCHANGED <<popup, tabInbox>>
          ELSE /\ exportRateLimit' = [lastExport |-> now, recentExports |-> Append(recent, now)]
               /\ history' = [history EXCEPT !.clicks = Append(@, now),
                                             !.lastClick = "accepted"]
               /\ IF popup.tab = "none"
                  THEN popup' = ExportCatch(started, "NO_ACTIVE_TAB") /\ UNCHANGED tabInbox
                  ELSE IF popup.tab \notin Platforms
                  THEN popup' = ExportCatch(started, "UNSUPPORTED_PLATFORM")
                       /\ UNCHANGED tabInbox
                  ELSE IF ~Truthy(popup.conversationId)
                  THEN popup' = ExportCatch(started, "NO_CONVERSATION_ID")
                       /\ UNCHANGED tabInbox
                  ELSE /\ popup' = started
                       /\ tabInbox' = Append(tabInbox,
                              ExportRequest(popup.tab, popup.conversationId.s))
    /\ UNCHANGED <<csvVars, exVars, now, popupAwait, cacheVars, bgInbox, forwardSettled, bgVars>>

\* handleExportClick after its await
PopupExportSettled ==
    /\ popup.open
    /\ popupAwait # <<>>
    /\ Head(popupAwait).request = "EXPORT_CONVERSATION"
    /\ popupAwait' = Tail(popupAwait)
    /\ LET r == Head(popupAwait)
           errorMessage == IF r.hasResponse /\ r.error # <<>> THEN r.error
                           ELSE UnknownErrorText
       IN IF r.settled = "rejected"
          THEN popup' = ExportCatch(popup,
                   IF includesText(r.error, ReceivingEndText) THEN "CONTENT_SCRIPT_NOT_LOADED"
                   ELSE IF includesText(r.error, PermissionText) THEN "PERMISSION_DENIED"
                   ELSE "NETWORK_ERROR")
          ELSE IF r.hasResponse /\ r.success
          THEN popup' = [updateExportButton(
                             updateStatus(popup, "success", "Export complete!"), FALSE)
                           EXCEPT !.closeTimer = TRUE]
          ELSE \E errorLower \in {toLowerCase(errorMessage)} :
                 popup' = ExportCatch(popup,
                   IF \/ includesText(errorLower, NoDataText)
                      \/ includesText(errorLower, NoConversationText)
                      \/ includesText(errorLower, EmptyText)
                   THEN "NO_DATA_AVAILABLE"
                   ELSE "EXPORT_FAILED")
    /\ UNCHANGED <<csvVars, exVars, now, exportRateLimit, contentVars, channelVars, bgVars>>

\* the 500 ms timer of displayError fires
PopupReenable ==
    /\ popup.open
    /\ popup.reenableTimers > 0
    /\ popup' = [(IF popup.isExporting THEN popup ELSE updateExportButton(popup, TRUE))
                    EXCEPT !.reenableTimers = @ - 1]
    /\ UNCHANGED <<csvVars, exVars, now, exportRateLimit, popupAwait, contentVars, channelVars, bgVars>>

\* the 2 s timer of the success branch fires: window.close()
PopupClose ==
    /\ popup.open
    /\ popup.closeTimer
    /\ popup' = [popup EXCEPT !.open = FALSE, !.closeTimer = FALSE, !.reenableTimers = 0]
    /\ UNCHANGED <<csvVars, exVars, now, exportRateLimit, popupAwait, contentVars, channelVars, bgVars>>

(***************************************************************************)
(* Popup: init and checkAndUpdateUI                                        *)
(***************************************************************************)
\* the state object of a freshly loaded popup, after startPolling
PopupLoaded(tab, conversationId) ==
    [open |-> TRUE, tab |-> tab, conversationId |-> conversationId,
     isExporting |-> FALSE, canExport |-> FALSE, lastError |-> "none",
     statusType |-> "info", statusMessage |-> "",
     isPolling |-> TRUE, reenableTimers |-> 0, closeTimer |-> FALSE]

\* checkAndUpdateUI up to the await inside checkConversationData: the popup
\* it leaves, and whether GET_CAPTURED_CONVERSATIONS was sent to the tab
checkAndUpdateUI(p) ==
    IF p.tab = "none" THEN [popup |-> displayError(p, "NO_ACTIVE_TAB"), asks |-> FALSE]
    ELSE IF p.tab \notin Platforms
    THEN [popup |-> displayError(p, "UNSUPPORTED_PLATFORM"), asks |-> FALSE]
    ELSE IF ~Truthy(p.conversationId)
    THEN [popup |-> displayError(p, "NO_CONVERSATION_ID"), asks |-> FALSE]
    ELSE [popup |-> p, asks |-> TRUE]

\* the user opens the popup on a tab: init() runs
PopupOpens(tab, conversationId) ==
    /\ ~popup.open
    /\ tabInbox = <<>> /\ popupAwait = <<>> /\ forwardSettled = <<>>
    /\ LET checked == checkAndUpdateUI(PopupLoaded(tab, conversationId))
       IN /\ popup' = checked.popup
          /\ tabInbox' = IF checked.asks THEN Append(tabInbox, CheckRequest(tab))
                         ELSE tabInbox
    /\ exportRateLimit' = [lastExport |-> 0, recentExports |-> <<>>]
    /\ history' = [history EXCEPT !.clicks = <<>>, !.lastClick = "none"]
    /\ UNCHANGED <<csvVars, exVars, now, popupAwait, cacheVars, bgInbox, forwardSettled, bgVars>>

\* the fallback polling interval fires and the debounced check runs
PopupPollFires ==
    /\ popup.open
    /\ popup.isPolling
    /\ Len(tabInbox) + Len(popupAwait) < MaxInFlight
    /\ LET checked == checkAndUpdateUI(popup)
       IN /\ popup' = checked.popup
          /\ tabInbox' = IF checked.asks THEN Append(tabInbox, CheckRequest(popup.tab))
                         ELSE tabInbox
    /\ UNCHANGED <<csvVars, exVars, now, exportRateLimit, popupAwait, contentVars, bgInbox, forwardSettled, bgVars>>

\* checkConversationData after its await, and the rest of checkAndUpdateUI
PopupCheckSettled ==
    /\ popup.open
    /\ popupAwait # <<>>
    /\ Head(popupAwait).request = "GET_CAPTURED_CONVERSATIONS"
    /\ popupAwait' = Tail(popupAwait)
    /\ LET r == Head(popupAwait)
           hasData == IF r.settled = "resolved" /\ r.hasResponse /\ r.success
                      THEN \E i \in 1..Len(r.conversationIds) :
                               r.conversationIds[i] = popup.conversationId.s
                      ELSE TRUE
       IN popup' = IF hasData
                   THEN updateExportButton(
                            updateStatus(popup, "success", ReadyMessage(popup.tab)), TRUE)
                   ELSE updateExportButton(
                            updateStatus(popup, "loading", LoadingMessage(popup.tab)), FALSE)
    /\ UNCHANGED <<csvVars, exVars, now, exportRateLimit, contentVars, channelVars, bgVars>>

(***************************************************************************)
(* Content scripts: runtime.onMessage listener (requests from the popup)   *)
(***************************************************************************)
\* the cache of the content script running in the tab of that platform
CacheOf(platform) ==
    IF platform = "chatgpt" THEN capturedConversations ELSE claudeConversations

HostOf(platform) == IF platform = "chatgpt" THEN HostChatGPT ELSE HostClaude

\* the history after the ChatGPT content script handled that request
Served(request) ==
    IF /\ request.tab = "chatgpt"
       /\ request.message.type = "EXPORT_CONVERSATION"
       /\ request.message.platform = "chatgpt"
       /\ MapHas(capturedConversations, request.message.conversationId)
    THEN [history EXCEPT !.exportedAt = MapSet(@, request.message.conversationId, now)]
    ELSE history

\* the listener of the content script in the request's tab
ContentOnMessage ==
    /\ tabInbox # <<>>
    /\ tabInbox' = Tail(tabInbox)
    /\ LET request == Head(tabInbox)
           message == request.message
           cache == CacheOf(request.tab)
       IN IF message.type = "GET_CAPTURED_CONVERSATIONS"
          THEN /\ popupAwait' = Append(popupAwait,
                      Answer(request, Listed([i \in 1..Len(cache) |-> cache[i].key])))
               /\ UNCHANGED bgInbox
          ELSE IF message.type = "EXPORT_CONVERSATION" /\ message.platform = request.tab
          THEN IF ~MapHas(cache, message.conversationId)
               THEN /\ popupAwait' = Append(popupAwait, Resolved(TRUE, FALSE, NotFoundError))
                    /\ UNCHANGED bgInbox
               ELSE /\ bgInbox' = Append(bgInbox,
                           Sent(RuntimeMessage(TRUE, HostOf(request.tab),
                                               DataTypeOf(request.tab), request.tab,
                                               MapGet(cache, message.conversationId)),
                                "sendResponse"))
                    /\ UNCHANGED popupAwait
          ELSE /\ popupAwait' = Append(popupAwait,
                      Answer(request, Resolved(FALSE, FALSE, <<>>)))
               /\ UNCHANGED bgInbox
    /\ history' = Served(Head(tabInbox))
    /\ UNCHANGED <<secretKey, capturedConversations, conversationTimestamps, verifying,
                   claudeConversations>>
    /\ UNCHANGED <<csvVars, exVars, now, popup, exportRateLimit, forwardSettled, bgVars>>

\* the then / catch callback of the export handler's runtime.sendMessage
ContentForwardSettled ==
    /\ forwardSettled # <<>>
    /\ forwardSettled' = Tail(forwardSettled)
    /\ popupAwait' = Append(popupAwait,
            IF Head(forwardSettled).settled = "resolved"
            THEN Resolved(TRUE, TRUE, <<>>)
            ELSE Resolved(TRUE, FALSE, Head(forwardSettled).error))
    /\ UNCHANGED <<csvVars, exVars, now, popup, exportRateLimit, contentVars, tabInbox, bgInbox, bgVars>>

\* tabs.sendMessage rejects: no content script in the tab, or no permission
TabUnreachable(error) ==
    /\ tabInbox # <<>>
    /\ tabInbox' = Tail(tabInbox)
    /\ popupAwait' = Append(popupAwait, Answer(Head(tabInbox), Rejected(error)))
    /\ UNCHANGED <<csvVars, exVars, now, popup, exportRateLimit, contentVars, bgInbox, forwardSettled, bgVars>>

(***************************************************************************)
(* Delivery of runtime messages to the background listener                 *)
(***************************************************************************)
\* the listener runs; it returns false and sends no response, so the
\* sender's promise resolves with undefined
BackgroundReceives ==
    /\ bgInbox # <<>>
    /\ bgInbox' = Tail(bgInbox)
    /\ BackgroundOnMessage(Head(bgInbox).msg)
    /\ forwardSettled' =
            IF Head(bgInbox).then = "sendResponse"
            THEN Append(forwardSettled, [settled |-> "resolved", error |-> <<>>])
            ELSE forwardSettled
    /\ UNCHANGED <<csvVars, exVars, now, popupVars, contentVars, tabInbox>>

\* runtime.sendMessage rejects: the background page is not listening
BackgroundUnreachable ==
    /\ bgInbox # <<>>
    /\ bgInbox' = Tail(bgInbox)
    /\ forwardSettled' =
            IF Head(bgInbox).then = "sendResponse"
            THEN Append(forwardSettled, [settled |-> "rejected", error |-> ReceivingEndError])
            ELSE forwardSettled
    /\ UNCHANGED <<csvVars, exVars, now, popupVars, contentVars, tabInbox, bgVars>>

(***************************************************************************)
(* Time                                                                    *)
(***************************************************************************)
MaxTicks == 4
TickMs == maxAge \div 2

Tick ==
    /\ now < MaxTicks * TickMs
    /\ now' = now + TickMs
    /\ UNCHANGED <<csvVars, exVars, popupVars, contentVars, channelVars, bgVars>>

NoHistory == [accepted |-> {}, exportedAt |-> <<>>, clicks |-> <<>>, lastClick |-> "none"]

FlowIdle ==
    /\ now = TickMs
    /\ popup = [PopupReady("none", JsNull) EXCEPT !.open = FALSE, !.canExport = FALSE]
    /\ exportRateLimit = [lastExport |-> 0, recentExports |-> <<>>]
    /\ popupAwait = <<>>
    /\ secretKey = NoKey
    /\ capturedConversations = <<>>
    /\ conversationTimestamps = <<>>
    /\ verifying = {}
    /\ claudeConversations = <<>>
    /\ history = NoHistory
    /\ tabInbox = <<>>
    /\ bgInbox = <<>>
    /\ forwardSettled = <<>>

Tables == {"chatgpt_metadata", "chatgpt_messages", "claude_conversation",
           "copilot_conversation", "chat_export"}

\* which encoder writes the fields of which file
EscapeFor(table, value) ==
    IF table \in {"chatgpt_metadata", "chatgpt_messages"}
    THEN extractorEscapeCSVField(value)
    ELSE IF table = "chat_export" THEN scraperEscapeCSVField(value)
    ELSE escapeCSVField(value)

FieldValues ==
    {JsNull} \cup {JsStr(s) : s \in StrsUpTo(MaxFieldLen)}
             \cup {JsBool(b) : b \in BOOLEAN}
             \cup {JsNum(n) : n \in 0..MaxNum}

BgIdle ==
    /\ bgLast = NotHandled
    /\ timers = <<>>
    /\ downloads = <<>>

ExIdle ==
    /\ exContent = NoContent
    /\ exImpl = "none"
    /\ exResult = Returned(<<>>)

NoInput == [kind |-> "none"]

NotScraped == [ran |-> FALSE, messages |-> <<>>, alert |-> "none"]

\* the page script right after it was loaded on a page that is no conversation
NoPage ==
    [location |-> <<>>, capturedIds |-> {}, capturedHeaders |-> FALSE,
     fetching |-> <<>>, issued |-> <<>>, refetched |-> FALSE, posted |-> <<>>,
     calls |-> <<>>, parsing |-> <<>>, results |-> <<>>, events |-> 0]

CsvIdle ==
    /\ csvTable = "none"
    /\ csvValue = JsNull
    /\ csvOut = <<>>
    /\ csvFile = <<>>
    /\ csvInput = NoInput
    /\ scraped = NotScraped
    /\ page = NoPage

CsvInit ==
    /\ csvTable = "none"
    /\ csvValue \in FieldValues
    /\ csvOut = <<>>
    /\ csvFile = <<>>
    /\ csvInput = NoInput
    /\ scraped = NotScraped
    /\ page = NoPage
    /\ ExIdle
    /\ BgIdle
    /\ FlowIdle

\* column names are single symbols: none of them holds a comma, a quote or a
\* line break
Headers(table) ==
    CASE table = "chatgpt_metadata" ->
            << <<"conversation_id">>, <<"title">>, <<"create_time">>, <<"update_time">>,
               <<"default_model_slug">>, <<"memory_scope">>, <<"is_do_not_remember">>,
               <<"num_messages">>, <<"num_user_messages">>, <<"num_assistant_messages">>,
               <<"num_tool_messages">>, <<"user_profile">>, <<"user_instructions">> >>
      [] table = "chatgpt_messages" ->
            << <<"conversation_id">>, <<"message_id">>, <<"author_role">>, <<"content_type">>,
               <<"text">>, <<"create_time">>, <<"model_slug">> >>
      [] table = "claude_conversation" ->
            << <<"conversation_id">>, <<"conversation_name">>, <<"message_id">>,
               <<"parent_message_id">>, <<"sender">>, <<"text">>, <<"created_at">>,
               <<"updated_at">>, <<"index">>, <<"truncated">>, <<"stop_reason">> >>
      [] table = "copilot_conversation" ->
            << <<"conversation_id">>, <<"message_id">>, <<"role">>, <<"text">>,
               <<"created_at">>, <<"channel">>, <<"mode">>, <<"part_ids">>, <<"author_type">> >>
      [] table = "chat_export" ->
            << <<"index">>, <<"role">>, <<"timestamp">>, <<"content">>, <<"source">> >>

\* background: generateCSV(data) with headers = Object.keys(data[0]); a row
\* is the sequence of its values in header order
generateCSV(headers, data) ==
    IF data = <<>> THEN <<>>
    ELSE LET headerRow == join([i \in 1..Len(headers) |-> escapeCSVField(JsStr(headers[i]))], <<",">>)
             rows == [r \in 1..Len(data) |->
                         join([i \in 1..Len(headers) |-> escapeCSVField(data[r][i])], <<",">>)]
         IN join(<<headerRow>> \o rows, <<"\n">>)

\* extractor: generateMetadataCSV (one row) and generateMessagesCSV
extractorGenerateCSV(headers, data) ==
    LET rows == [r \in 1..Len(data) |->
                    join([i \in 1..Len(headers) |-> extractorEscapeCSVField(data[r][i])], <<",">>)]
    IN join(<<join(headers, <<",">>)>> \o rows, <<"\n">>)

\* DOM scraper: generateCSV(messages); the index column is msg.index.toString()
scraperGenerateCSV(headers, messages) ==
    LET rows == [r \in 1..Len(messages) |->
                    join([i \in 1..Len(headers) |->
                            IF i = 1 THEN String(messages[r][i])
                            ELSE scraperEscapeCSVField(messages[r][i])], <<",">>)]
    IN join(<<join(headers, <<",">>)>> \o rows, <<"\n">>)

GenerateFor(table, data) ==
    IF table \in {"chatgpt_metadata", "chatgpt_messages"}
    THEN extractorGenerateCSV(Headers(table), data)
    ELSE IF table = "chat_export" THEN scraperGenerateCSV(Headers(table), data)
    ELSE generateCSV(Headers(table), data)

\* the rows of the file written around one field value: the value sits in
\* the second column of the first row; the metadata file has one row only
RowWith(table, value) ==
    [i \in 1..Len(Headers(table)) |->
        IF i = 2 THEN value
        ELSE IF i = 1 /\ table = "chat_export" THEN JsNum(0)
        ELSE JsStr(<<"x">>)]

RowsWith(table, value) ==
    IF table = "chatgpt_metadata" THEN <<RowWith(table, value)>>
    ELSE <<RowWith(table, value), RowWith(table, JsStr(<<"y">>))>>

\* one field of one row of the given file is encoded, and the file around
\* it is generated; the fields of the DOM-scrape table (role, timestamp,
\* content, source) are always strings
WriteField(table) ==
    /\ csvTable = "none"
    /\ table = "chat_export" => csvValue.t = "str"
    /\ csvTable' = table
    /\ csvOut' = EscapeFor(table, csvValue)
    /\ csvFile' = GenerateFor(table, RowsWith(table, csvValue))
    /\ UNCHANGED <<csvValue, csvInput, scraped, page, exVars, bgVars, flowVars>>

CsvNext == \E table \in Tables : WriteField(table)

SpecCSV == CsvInit /\ [][CsvNext]_vars

ExInit ==
    /\ exContent \in Contents
    /\ exImpl = "none"
    /\ exResult = Returned(<<>>)
    /\ CsvIdle
    /\ BgIdle
    /\ FlowIdle

\* extractTextFromContent(content) is called once, in one of its two versions
ExtractText(impl) ==
    /\ exImpl = "none"
    /\ exImpl' = impl
    /\ exResult' = ExtractWith(impl, exContent)
    /\ UNCHANGED <<exContent, csvVars, bgVars, flowVars>>

ExNext == \E impl \in {"extractor", "flatten"} : ExtractText(impl)

SpecExtract == ExInit /\ [][ExNext]_vars

(***************************************************************************)
(* C1: every field written to any generated CSV whose string form begins   *)
(* with =, +, -, @, TAB or CR is emitted with exactly one leading          *)
(* apostrophe, added before the quoting rule is applied.                   *)
(***************************************************************************)
IsDangerous(value) ==
    value.t # "null" /\ \E c \in dangerousChars : startsWith(String(value), c)

\* the apostrophe-prefixed string form, then quoted by the RFC 4180 rule
GuardedThenQuoted(value) ==
    LET g == <<"'">> \o String(value)
    IN IF includes(g, ",") \/ includes(g, "\"") \/ includes(g, "\n") \/ includes(g, "\r")
       THEN <<"\"">> \o replaceQuotes(g) \o <<"\"">>
       ELSE g

C1_InjectionGuardEveryCsv ==
    (csvTable # "none" /\ IsDangerous(csvValue)) => csvOut = GuardedThenQuoted(csvValue)

(***************************************************************************)
(* The orchestrator alone: one message reaches the background listener,    *)
(* then the download timers it scheduled fire.  handleConversationData     *)
(* keeps no state between calls, so one call per behaviour covers it.      *)
(***************************************************************************)
OrchInit == BgIdle /\ CsvIdle /\ ExIdle /\ FlowIdle

OrchReceive ==
    /\ ~bgLast.handled
    /\ \E msg \in OrchMessages : BackgroundOnMessage(msg)
    /\ UNCHANGED <<csvVars, exVars, flowVars>>

OrchDownloadStarts == DownloadStarts /\ UNCHANGED <<csvVars, exVars, flowVars>>
OrchDownloadFails == DownloadFails /\ UNCHANGED <<csvVars, exVars, flowVars>>

OrchNext == OrchReceive \/ OrchDownloadStarts \/ OrchDownloadFails

SpecOrch == OrchInit /\ [][OrchNext]_vars

(***************************************************************************)
(* The export flow: the page scripts capture conversations, the user       *)
(* clicks Export in the popup, the content script of the tab forwards the  *)
(* cached conversation to the background, the background starts downloads. *)
(***************************************************************************)
MaxFiles == 1

ConversationC1 == <<"c", "1">>

\* ChatGPT conversations of the page: a plain one, one whose second message
\* has a null part, one whose mapping is not an object
FlowChatGPTPayloads ==
    {PlainChatGPT,
     Payload(JsStr(ConversationC1),
             Collection(<<Node("user", TextA), Node("assistant", NullPartContent)>>),
             Absent, Absent, SmallSize),
     Payload(JsStr(ConversationC1), NotACollection, Absent, Absent, SmallSize)}

\* Claude conversations of the page: one message, no message yet, a null entry
FlowClaudePayloads ==
    {[Payload(JsUndef, Absent, Collection(q), Absent, SmallSize)
        EXCEPT !.uuid = JsStr(ConversationC1)] :
        q \in {<<ClaudeMessage("human", Array(<<ItemObj("text", <<"H", "i">>)>>))>>,
               <<>>, <<NullEntry>>}}

FlowInit ==
    /\ CsvIdle /\ ExIdle /\ BgIdle
    /\ now = TickMs
    /\ popup \in {PopupReady(tab, JsStr(ConversationC1)) : tab \in {"chatgpt", "claude"}}
                 \cup {PopupNoConversation(tab) : tab \in {"chatgpt", "claude"}}
    /\ exportRateLimit = [lastExport |-> 0, recentExports |-> <<>>]
    /\ popupAwait = <<>>
    /\ secretKey = NoKey
    /\ capturedConversations = <<>>
    /\ conversationTimestamps = <<>>
    /\ verifying = {}
    /\ claudeConversations = <<>>
    /\ history = NoHistory
    /\ tabInbox = <<>>
    /\ bgInbox = <<>>
    /\ forwardSettled = <<>>

\* the ChatGPT page script posts a conversation it captured, signed with
\* the secret it read from the page
ChatGPTCapture ==
    \E data \in FlowChatGPTPayloads :
        ChatGPTWindowMessage(createSignedMessage(data, "CHATGPT_CONVERSATION_DATA",
                                 "chatgpt-exporter-inject", "chatgpt", secretKey, now, "n1"))

\* the Claude page script posts a conversation it captured
ClaudeCapture ==
    /\ Len(timers) + Len(downloads) < MaxFiles
    /\ \E data \in FlowClaudePayloads :
        ClaudeWindowMessage(WindowMessage("CLAUDE_CONVERSATION_DATA", data,
                                "claude-exporter-inject", "claude", JsUndef, "", NoSignature))

ChatGPTListenerResumes == \E call \in verifying : ChatGPTVerified(call)

FlowTabUnreachable ==
    \E error \in {ReceivingEndError, PermissionError, DisconnectedError} : TabUnreachable(error)

FlowNext ==
    \/ SecretKeyReady
    \/ ChatGPTCapture
    \/ ChatGPTListenerResumes
    \/ ClaudeCapture
    \/ PopupExportClick
    \/ ContentOnMessage
    \/ FlowTabUnreachable
    \/ ContentForwardSettled
    \/ PopupExportSettled
    \/ PopupReenable
    \/ PopupClose
    \/ BackgroundReceives
    \/ BackgroundUnreachable
    \/ OrchDownloadStarts
    \/ OrchDownloadFails

SpecFlow == FlowInit /\ [][FlowNext]_vars

(***************************************************************************)
(* The signed channel alone: any script of the page posts window messages  *)
(* to the ChatGPT content script while time passes.                        *)
(***************************************************************************)
Timestamps == {JsUndef} \cup {JsNum(k * TickMs) : k \in 0..MaxTicks}

\* a conversation an attacker substitutes for the signed one
ForgedChatGPT ==
    Payload(JsStr(ConversationC1), Collection(<<Node("assistant", TextA)>>),
            Absent, Absent, SmallSize)

SignedAt(payload, timestamp, secret) ==
    LET message == WindowMessage("CHATGPT_CONVERSATION_DATA", payload,
                                 "chatgpt-exporter-inject", "chatgpt", timestamp, "n1",
                                 NoSignature)
    IN [message EXCEPT !.signature = signMessage(MessageData(message), secret)]

\* what a page script can post at time t: correctly signed conversations
\* carrying any timestamp, signed messages without a usable conversation,
\* and messages that are unsigned, signed with another key, or altered
\* after signing
PageMessages(t) ==
    {SignedAt(PlainChatGPT, timestamp, "k1") : timestamp \in Timestamps}
    \cup {createSignedMessage(payload, "CHATGPT_CONVERSATION_DATA", "chatgpt-exporter-inject",
                              "chatgpt", "k1", t, "n1") :
            payload \in {NullPayload, Payload(JsStr(ConversationC1), Absent, Absent, Absent,
                                              SmallSize)}}
    \cup {[SignedAt(PlainChatGPT, JsNum(t), "k1") EXCEPT !.signature = NoSignature],
          SignedAt(PlainChatGPT, JsNum(t), "k2"),
          [SignedAt(PlainChatGPT, JsNum(t), "k1") EXCEPT !.payload = ForgedChatGPT],
          [SignedAt(PlainChatGPT, JsNum(t), "k1") EXCEPT !.source = "page"]}

SignedInit == CsvIdle /\ ExIdle /\ BgIdle /\ FlowIdle

PagePosts == \E message \in PageMessages(now) : ChatGPTWindowMessage(message)

SignedNext ==
    \/ SecretKeyReady
    \/ Tick
    \/ PagePosts
    \/ ChatGPTListenerResumes
    \/ BackgroundReceives

SpecSigned == SignedInit /\ [][SignedNext]_vars

(***************************************************************************)
(* Expiry of cached conversations: one ChatGPT tab over more than an hour. *)
(* The page captures a conversation now and then, the cleanup timer runs   *)
(* every five minutes, the user opens the popup and exports.               *)
(***************************************************************************)
MaxExpiryTicks == 27
ExpiryTickMs == CLEANUP_INTERVAL_MS \div 2

\* no message is in flight, nothing is suspended at an await and no
\* short timer (download stagger, 500 ms re-enable, 2 s close) is pending
Quiet ==
    /\ tabInbox = <<>> /\ bgInbox = <<>> /\ popupAwait = <<>> /\ forwardSettled = <<>>
    /\ verifying = {} /\ timers = <<>>
    /\ popup.reenableTimers = 0 /\ ~popup.closeTimer

\* two and a half minutes pass: everything in flight has been handled by
\* then, and a cleanup that is due runs before the clock moves on
ExpiryTick ==
    /\ now < MaxExpiryTicks * ExpiryTickMs
    /\ Quiet
    /\ CleanupDue =>
            cleanupOldConversations(capturedConversations, conversationTimestamps, now)
                = [conversations |-> capturedConversations,
                   timestamps |-> conversationTimestamps]
    /\ now' = now + ExpiryTickMs
    /\ UNCHANGED <<csvVars, exVars, popupVars, contentVars, channelVars, bgVars>>

ExpiryInit ==
    /\ CsvIdle /\ ExIdle /\ BgIdle
    /\ now = ExpiryTickMs
    /\ popup = [PopupReady("none", JsNull) EXCEPT !.open = FALSE, !.canExport = FALSE]
    /\ exportRateLimit = [lastExport |-> 0, recentExports |-> <<>>]
    /\ popupAwait = <<>>
    /\ secretKey = NoKey
    /\ capturedConversations = <<>>
    /\ conversationTimestamps = <<>>
    /\ verifying = {}
    /\ claudeConversations = <<>>
    /\ history = NoHistory
    /\ tabInbox = <<>>
    /\ bgInbox = <<>>
    /\ forwardSettled = <<>>

ExpiryCapture ==
    ChatGPTWindowMessage(createSignedMessage(PlainChatGPT, "CHATGPT_CONVERSATION_DATA",
                             "chatgpt-exporter-inject", "chatgpt", secretKey, now, "n1"))

\* the user opens the popup on the tab of conversation c1
ExpiryPopupOpens ==
    /\ Len(timers) + Len(downloads) < MaxFiles
    /\ PopupOpens("chatgpt", JsStr(ConversationC1))

ExpiryNext ==
    \/ SecretKeyReady
    \/ ExpiryTick
    \/ CleanupTimerFires
    \/ ExpiryCapture
    \/ ChatGPTListenerResumes
    \/ ExpiryPopupOpens
    \/ PopupPollFires
    \/ PopupCheckSettled
    \/ PopupExportClick
    \/ ContentOnMessage
    \/ ContentForwardSettled
    \/ PopupExportSettled
    \/ PopupReenable
    \/ PopupClose
    \/ BackgroundReceives
    \/ OrchDownloadStarts

SpecExpiry == ExpiryInit /\ [][ExpiryNext]_vars

(***************************************************************************)
(* The caches at capacity: one tab, ChatGPT or Claude, whose page has      *)
(* already captured MAX_STORED_CONVERSATIONS conversations (or one less),  *)
(* one every CaptureGapMs; the page captures further conversations and the *)
(* user exports the oldest one from the popup opened on that tab.          *)
(***************************************************************************)
CaptureGapMs == 100
MaxCaptures == 2

CacheId(i) == <<"c">> \o NatToStr(i)

CachedChatGPT(i) ==
    Payload(JsStr(CacheId(i)), Collection(<<Node("user", TextA)>>), Absent, Absent, SmallSize)

CachedClaude(i) ==
    [Payload(JsUndef, Absent,
             Collection(<<ClaudeMessage("human", Array(<<ItemObj("text", <<"H", "i">>)>>))>>),
             Absent, SmallSize)
        EXCEPT !.uuid = JsStr(CacheId(i))]

\* the ChatGPT cache after conversations 1..n (n within the limit) were
\* stored one after another, conversation i at time i * CaptureGapMs
StoredUpTo(n) ==
    [conversations |-> [i \in 1..n |-> [key |-> CacheId(i), value |-> CachedChatGPT(i)]],
     timestamps |-> [i \in 1..n |-> [key |-> CacheId(i), value |-> i * CaptureGapMs]]]

\* the Claude cache after conversations 1..n were stored
ClaudeStoredUpTo(n) == [i \in 1..n |-> [key |-> CacheId(i), value |-> CachedClaude(i)]]

CacheInit ==
    /\ CsvIdle /\ ExIdle /\ BgIdle
    /\ now = TickMs
    /\ exportRateLimit = [lastExport |-> 0, recentExports |-> <<>>]
    /\ popupAwait = <<>>
    /\ secretKey = "k1"
    /\ \E n \in {MAX_STORED_CONVERSATIONS - 1, MAX_STORED_CONVERSATIONS} :
            \/ /\ popup = PopupReady("chatgpt", JsStr(ConversationC1))
               /\ capturedConversations = StoredUpTo(n).conversations
               /\ conversationTimestamps = StoredUpTo(n).timestamps
               /\ claudeConversations = <<>>
            \/ /\ popup = PopupReady("claude", JsStr(ConversationC1))
               /\ capturedConversations = <<>>
               /\ conversationTimestamps = <<>>
               /\ claudeConversations = ClaudeStoredUpTo(n)
    /\ verifying = {}
    /\ history = NoHistory
    /\ tabInbox = <<>>
    /\ bgInbox = <<>>
    /\ forwardSettled = <<>>

\* the entries stored since the scenario began
StoredSince(t) ==
    Cardinality({i \in 1..Len(conversationTimestamps) : conversationTimestamps[i].value >= t})

\* the ChatGPT page captures the oldest conversation again, or a new one
CacheCapture ==
    /\ popup.tab = "chatgpt"
    /\ StoredSince(TickMs) < MaxCaptures
    /\ \E i \in {1, MAX_STORED_CONVERSATIONS + 1} :
            ChatGPTWindowMessage(createSignedMessage(CachedChatGPT(i),
                "CHATGPT_CONVERSATION_DATA", "chatgpt-exporter-inject", "chatgpt",
                secretKey, now, "n1"))

\* the Claude page captures a new conversation
CacheClaudeCapture ==
    /\ popup.tab = "claude"
    /\ Len(timers) + Len(downloads) < MaxFiles
    /\ ClaudeWindowMessage(WindowMessage("CLAUDE_CONVERSATION_DATA",
            CachedClaude(MAX_STORED_CONVERSATIONS + 1), "claude-exporter-inject", "claude",
            JsUndef, "", NoSignature))

CacheNext ==
    \/ CacheCapture
    \/ ChatGPTListenerResumes
    \/ CacheClaudeCapture
    \/ PopupExportClick
    \/ ContentOnMessage
    \/ ContentForwardSettled
    \/ PopupExportSettled
    \/ PopupReenable
    \/ PopupClose
    \/ BackgroundReceives
    \/ OrchDownloadStarts

SpecCache == CacheInit /\ [][CacheNext]_vars

(***************************************************************************)
(* What the claims about the orchestrator speak of                         *)
(***************************************************************************)
HasRequiredField(platform, data) ==
    /\ data.kind = "object"
    /\ CASE platform = "chatgpt" -> data.mapping.t = "object"
         [] platform = "claude" ->
                data.chat_messages.t = "object" /\ Len(data.chat_messages.items) > 0
         [] OTHER -> data.results.t = "object" /\ Len(data.results.items) > 0

\* the source message entries of a payload, by position
SourceEntries(platform, data) ==
    CASE platform = "chatgpt" ->
            {i \in 1..Len(MappingNodes(data)) : MappingNodes(data)[i].hasMessage}
      [] platform = "claude" ->
            IF data.chat_messages.t = "object" THEN 1..Len(data.chat_messages.items) ELSE {}
      [] OTHER -> IF data.results.t = "object" THEN 1..Len(data.results.items) ELSE {}

ContextOnlyEntries(platform, data) ==
    IF platform = "chatgpt"
    THEN {i \in SourceEntries(platform, data) :
            ContentTypeOf(MappingNodes(data)[i].content) \in ContextOnlyTypes}
    ELSE {}

\* the entries whose own extraction fails
FailingEntries(platform, data) ==
    CASE platform = "chatgpt" ->
            {i \in SourceEntries(platform, data) \ ContextOnlyEntries(platform, data) :
                extractTextFromContent(MappingNodes(data)[i].content).threw}
      [] platform = "claude" ->
            {i \in SourceEntries(platform, data) : data.chat_messages.items[i].isNull}
      [] OTHER ->
            {i \in SourceEntries(platform, data) :
                data.results.items[i].isNull \/ data.results.items[i].content.t = "string"}

Emitted(i) == \E k \in 1..Len(bgLast.rows) : bgLast.rows[k].src = i

Processed == bgLast.handled /\ bgLast.platform \in Platforms /\ bgLast.validation.isValid

(***************************************************************************)
(* C2: a normalizer is invoked only on a payload that has the platform's   *)
(* required top-level field; a payload lacking it is rejected by           *)
(* validation and never reaches a normalizer.                              *)
(***************************************************************************)
C2_ValidationGuardsNormalizer ==
    (bgLast.handled /\ bgLast.platform \in Platforms
        /\ ~HasRequiredField(bgLast.platform, bgLast.payload))
    => (~bgLast.validation.isValid /\ bgLast.normalizer = "none")

(***************************************************************************)
(* C4: if extraction of one message fails, only that message is missing    *)
(* from the output: every other message of the conversation is emitted,    *)
(* on every platform.                                                      *)
(***************************************************************************)
C4_OnlyFailedMessageLost ==
    Processed =>
        \A i \in (SourceEntries(bgLast.platform, bgLast.payload)
                    \ ContextOnlyEntries(bgLast.platform, bgLast.payload))
                    \ FailingEntries(bgLast.platform, bgLast.payload) : Emitted(i)

(***************************************************************************)
(* C6: for every valid payload the number of emitted message records       *)
(* equals the number of source message entries minus the number of         *)
(* context-only entries, exactly.                                          *)
(***************************************************************************)
C6_RowCountExact ==
    Processed =>
        Len(bgLast.rows) = Cardinality(SourceEntries(bgLast.platform, bgLast.payload))
                           - Cardinality(ContextOnlyEntries(bgLast.platform, bgLast.payload))

(***************************************************************************)
(* C7: for every ChatGPT payload, the metadata field num_messages equals   *)
(* the number of message records emitted in the messages table.            *)
(***************************************************************************)
ChatGPTExtracted ==
    Processed /\ bgLast.platform = "chatgpt" /\ ~bgLast.threw

C7_NumMessagesMatchesRows ==
    ChatGPTExtracted => bgLast.metadata.num_messages = Len(bgLast.rows)

(***************************************************************************)
(* C8: for every ChatGPT mapping, num_user_messages +                      *)
(* num_assistant_messages + num_tool_messages <= num_messages.             *)
(***************************************************************************)
C8_RoleCountsWithinTotal ==
    ChatGPTExtracted =>
        bgLast.metadata.num_user_messages + bgLast.metadata.num_assistant_messages
            + bgLast.metadata.num_tool_messages <= bgLast.metadata.num_messages

(***************************************************************************)
(* C5: text extraction returns a string and never throws, for any content  *)
(* value, including parts or thoughts lists holding null or non-object     *)
(* items and content with an unrecognized type tag.                        *)
(***************************************************************************)
C5_ExtractNeverThrows == exImpl # "none" => ~exResult.threw

(***************************************************************************)
(* C3: whenever an export request ends with no CSV file downloaded (the    *)
(* background rejected the payload at validation, or processing threw),    *)
(* the popup reports a failure for that request and never shows            *)
(* 'Export complete!'.                                                     *)
(***************************************************************************)
\* nothing of the request is still on its way
ExportQuiescent ==
    /\ tabInbox = <<>> /\ bgInbox = <<>> /\ forwardSettled = <<>>
    /\ popupAwait = <<>> /\ timers = <<>>

C3_NoSuccessWithoutDownload ==
    (popup.statusMessage = "Export complete!" /\ ExportQuiescent) => downloads # <<>>

(***************************************************************************)
(* C9: a download happens only on an explicit user export action: in every *)
(* content script, captured conversation data is sent to the background    *)
(* only in response to an EXPORT_CONVERSATION request, never merely        *)
(* because a conversation was captured.                                    *)
(***************************************************************************)
C9_ForwardOnlyOnExport ==
    /\ \A i \in 1..Len(bgInbox) :
            bgInbox[i].msg.type \in DataTypes => bgInbox[i].then = "sendResponse"
    /\ (timers # <<>> \/ downloads # <<>>) => exportRateLimit.lastExport > 0

(***************************************************************************)
(* C10: a payload is stored in the conversation cache only if its message  *)
(* passed verification: a valid HMAC signature under the content script's  *)
(* secret, the expected type and source, and a timestamp that is not in    *)
(* the future and at most 30 seconds old at verification time.             *)
(***************************************************************************)
PassedVerification(message, at) ==
    /\ message.signature = signMessage(MessageData(message), secretKey)
    /\ message.type = "CHATGPT_CONVERSATION_DATA"
    /\ message.source = "chatgpt-exporter-inject"
    /\ message.timestamp.t = "num"
    /\ message.timestamp.n <= at
    /\ at - message.timestamp.n <= 30000

\* the cache entry of key k is new or was replaced in this step
StoredNow(k) ==
    /\ MapHas(capturedConversations', k)
    /\ MapHas(capturedConversations, k) =>
            MapGet(capturedConversations', k) # MapGet(capturedConversations, k)

C11_AcceptedAtMostOnce ==
    [][\A call \in verifying \ verifying' :
            call.data \in history.accepted =>
                UNCHANGED <<capturedConversations, conversationTimestamps, bgInbox>>]_vars

(***************************************************************************)
(* C13: a conversation that was stored more than 1 hour ago is expired: it *)
(* is not listed by GET_CAPTURED_CONVERSATIONS and an EXPORT_CONVERSATION  *)
(* request for it does not forward its data.  Stated for the requests that *)
(* arrive at an instant at which no cleanup run is due, so that a request  *)
(* overtaking the cleanup timer is not counted against the claim.          *)
(***************************************************************************)
\* the ids the ChatGPT content script stored more than an hour ago
Expired ==
    {conversationTimestamps[i].key : i \in
        {j \in 1..Len(conversationTimestamps) :
            now - conversationTimestamps[j].value > 3600000}}

\* the content script of the ChatGPT tab handles the request at the head
ChatGPTServes ==
    /\ tabInbox # <<>>
    /\ Head(tabInbox).tab = "chatgpt"
    /\ tabInbox' = Tail(tabInbox)

C13_ExpiredNotServed ==
    [][(ChatGPTServes /\ ~CleanupDue) =>
        \A id \in Expired :
            /\ \A k \in (Len(popupAwait) + 1)..Len(popupAwait') :
                    \A i \in 1..Len(popupAwait'[k].conversationIds) :
                        popupAwait'[k].conversationIds[i] # id
            /\ Head(tabInbox).message.conversationId = id => bgInbox' = bgInbox]_vars

(***************************************************************************)
(* C12: in every content script, after any sequence of captures the number *)
(* of conversations held in memory never exceeds 50.                       *)
(***************************************************************************)
C12_AtMostFiftyStored ==
    /\ Len(capturedConversations) <= 50
    /\ Len(claudeConversations) <= 50

(***************************************************************************)
(* C14: when the cache is at capacity, the entry evicted is the least      *)
(* recently used one: a conversation that was re-captured or exported more *)
(* recently than another is never evicted while that other one stays.      *)
(***************************************************************************)
CachedIds(conversations) == {conversations[i].key : i \in 1..Len(conversations)}

\* when the conversation was last captured or served to an export request
LastUsed(id) ==
    LET captured == MapGet(conversationTimestamps, id)
    IN IF MapHas(history.exportedAt, id) /\ MapGet(history.exportedAt, id) > captured
       THEN MapGet(history.exportedAt, id)
       ELSE captured

C14_EvictsLeastRecentlyUsed ==
    [][verifying' # verifying =>
        \A evicted \in CachedIds(capturedConversations) \ CachedIds(capturedConversations') :
            \A kept \in CachedIds(capturedConversations) \cap CachedIds(capturedConversations') :
                LastUsed(evicted) <= LastUsed(kept)]_vars

(***************************************************************************)
(* C15: in every generated CSV a field is wrapped in double quotes (with   *)
(* internal double quotes doubled) if and only if it contains a comma, a   *)
(* double quote, a carriage return or a newline.                           *)
(***************************************************************************)
NeedsQuoting(s) ==
    includes(s, ",") \/ includes(s, "\"") \/ includes(s, "\r") \/ includes(s, "\n")

Quoted(s) == <<"\"">> \o replaceQuotes(s) \o <<"\"">>

\* the field text is the string form of the value, or that string behind
\* the apostrophe of the injection guard
C15_QuotedIffSpecialChar ==
    (csvTable # "none" /\ csvValue.t # "null") =>
        \E field \in {String(csvValue), <<"'">> \o String(csvValue)} :
            csvOut = IF NeedsQuoting(String(csvValue)) THEN Quoted(field) ELSE field

(***************************************************************************)
(* C16: parsing any generated CSV with an RFC 4180 parser reproduces the   *)
(* original row values exactly, for all values including those containing  *)
(* commas, quotes, embedded line breaks, and those beginning with =, +, -  *)
(* or @.                                                                   *)
(***************************************************************************)
\* reference parser: fields are separated by commas and records by CRLF (a
\* lone LF or CR also ends a record); a comma or line break is a separator
\* when an even number of double quotes precedes it; a field that opens with
\* a double quote is the text between its outer quotes, two double quotes
\* inside it standing for one
Indices(n) == [i \in 1..n |-> i]

Unquote(raw) ==
    IF raw # <<>> /\ raw[1] = "\""
    THEN LET inner == SubSeq(raw, 2, Len(raw) - 1)
             run(j) == j - (CHOOSE m \in 0..j :
                                /\ m = 0 \/ inner[m] # "\""
                                /\ \A k \in (m + 1)..j : inner[k] = "\"")
             kept == SelectSeq(Indices(Len(inner)),
                               LAMBDA j : inner[j] # "\"" \/ run(j) % 2 = 1)
         IN [k \in 1..Len(kept) |-> inner[kept[k]]]
    ELSE raw

ParseCsv(doc) ==
    LET n == Len(doc)
        outside(i) == Cardinality({j \in 1..(i - 1) : doc[j] = "\""}) % 2 = 0
        isComma(i) == doc[i] = "," /\ outside(i)
        isBreak(i) == doc[i] \in {"\r", "\n"} /\ outside(i)
        isLfOfCrLf(i) == i > 1 /\ i <= n /\ doc[i] = "\n" /\ doc[i - 1] = "\r" /\ isBreak(i - 1)
        ends == SelectSeq(Indices(n + 1),
                          LAMBDA i : i = n + 1 \/ isComma(i) \/ (isBreak(i) /\ ~isLfOfCrLf(i)))
        start(k) == IF k = 1 THEN 1
                    ELSE IF isLfOfCrLf(ends[k - 1] + 1) THEN ends[k - 1] + 2
                    ELSE ends[k - 1] + 1
        fieldAt(k) == Unquote(SubSeq(doc, start(k), ends[k] - 1))
        lasts == SelectSeq(Indices(Len(ends)),
                           LAMBDA k : ends[k] = n + 1 \/ isBreak(ends[k]))
        first(r) == IF r = 1 THEN 1 ELSE lasts[r - 1] + 1
    IN [r \in 1..Len(lasts) |->
            [c \in 1..(lasts[r] - first(r) + 1) |-> fieldAt(first(r) + c - 1)]]

\* a row value as text: null is the empty field
RowText(value) == IF value.t = "null" THEN <<>> ELSE String(value)

OriginalRows(table, data) ==
    <<Headers(table)>> \o
        [r \in 1..Len(data) |-> [i \in 1..Len(Headers(table)) |-> RowText(data[r][i])]]

C16_ParseReproducesRows ==
    csvTable # "none" =>
        ParseCsv(csvFile) = OriginalRows(csvTable, RowsWith(csvTable, csvValue))

(***************************************************************************)
(* C17: output for one export request is all-or-nothing: either every CSV  *)
(* file of the request is written or none is; a ChatGPT export never ends  *)
(* with exactly one of its metadata and messages files downloaded.         *)
(***************************************************************************)
RequestEnded == bgLast.handled /\ timers = <<>>

C17_AllFilesOrNone ==
    RequestEnded => (downloads = <<>> \/ downloads = bgLast.csvFiles)

(***************************************************************************)
(* C18: every payload that passes validation yields exactly two named      *)
(* outputs (metadata and messages) when the platform is chatgpt and        *)
(* exactly one output when the platform is claude or copilot.              *)
(***************************************************************************)
OutputNames(outcome) == [i \in 1..Len(outcome.csvFiles) |-> outcome.csvFiles[i].prefix]

C18_TwoOutputsOrOne ==
    Processed =>
        OutputNames(bgLast) =
            CASE bgLast.platform = "chatgpt" -> <<"chatgpt_metadata", "chatgpt_messages">>
              [] bgLast.platform = "claude" -> <<"claude_conversation">>
              [] OTHER -> <<"copilot_conversation">>

(***************************************************************************)
(* Concurrent export requests: messages reach the background listener      *)
(* while the download timers of earlier messages are still pending, and    *)
(* time passes in steps of half the stagger between two downloads.         *)
(***************************************************************************)
MaxConcTicks == 2
ConcTickMs == DownloadStaggerMs \div 2
MaxConcFiles == 3

ConcClaude ==
    [Payload(JsUndef, Absent,
             Collection(<<ClaudeMessage("human", Array(<<ItemObj("text", <<"H", "i">>)>>))>>),
             Absent, SmallSize) EXCEPT !.uuid = JsStr(ConversationC1)]

\* two ChatGPT conversations with the same id and different messages, and a
\* Claude conversation
ConcMessages ==
    {RuntimeMessage(TRUE, HostChatGPT, "CHATGPT_CONVERSATION_DATA", "chatgpt", PlainChatGPT),
     RuntimeMessage(TRUE, HostChatGPT, "CHATGPT_CONVERSATION_DATA", "chatgpt", ForgedChatGPT),
     RuntimeMessage(TRUE, HostClaude, "CLAUDE_CONVERSATION_DATA", "claude", ConcClaude)}

ConcInit == BgIdle /\ CsvIdle /\ ExIdle /\ FlowIdle

ConcReceive ==
    /\ Len(timers) + Len(downloads) < MaxConcFiles
    /\ \E msg \in ConcMessages : BackgroundOnMessage(msg)
    /\ UNCHANGED <<csvVars, exVars, flowVars>>

ConcTick ==
    /\ now < TickMs + MaxConcTicks * ConcTickMs
    /\ now' = now + ConcTickMs
    /\ UNCHANGED <<csvVars, exVars, popupVars, contentVars, channelVars, bgVars>>

ConcNext == ConcReceive \/ ConcTick \/ OrchDownloadStarts \/ OrchDownloadFails

SpecConcurrent == ConcInit /\ [][ConcNext]_vars

(***************************************************************************)
(* C19: when two export requests are processed concurrently (their         *)
(* asynchronous steps and download timers interleaved), each request's     *)
(* files contain exactly the rows of its own payload under its own         *)
(* filenames; no state written while processing one request is read while  *)
(* processing the other.                                                   *)
(***************************************************************************)
\* the file a timer must download: the one its own call computes from its
\* own payload at the time the call ran
OwnFile(timer) ==
    handleConversationData(timer.platform, timer.payload,
                           timer.due - (timer.index - 1) * DownloadStaggerMs).csvFiles[timer.index]

StructuralErrors ==
    {"Data is not an object",
     "ChatGPT data missing required fields (mapping or conversation_id)",
     "ChatGPT mapping is not an object",
     "Claude data missing required chat_messages array",
     "Claude chat_messages array is empty",
     "Copilot data missing required results array",
     "Copilot results array is empty"}

Oversized == bgLast.handled /\ bgLast.payload.jsonSize > MAX_PAYLOAD_SIZE

C20_OversizedRejectedDistinctly ==
    Oversized =>
        /\ ~bgLast.validation.isValid
        /\ bgLast.validation.error \notin StructuralErrors
        /\ bgLast.normalizer = "none"
        /\ bgLast.csvFiles = <<>> /\ timers = <<>> /\ downloads = <<>>

\* an oversized payload that has none of the required fields was rejected
\* for its size
C20_OversizedRejected ==
    /\ Oversized
    /\ ~Present(bgLast.payload.mapping) /\ ~Truthy(bgLast.payload.conversation_id)
    /\ bgLast.validation = Invalid("Payload too large")

(***************************************************************************)
(* C21: an export request for a conversation whose data has not been       *)
(* captured yet is reported to the user with the 'no data captured'        *)
(* message, which is distinct from the 'unsupported platform' message and  *)
(* from the generic 'export failed' message.                               *)
(***************************************************************************)
\* the popup resumes from the await of an export whose conversation the
\* content script did not find in its cache
NotCapturedAnswered ==
    /\ popupAwait # <<>>
    /\ popupAwait' = Tail(popupAwait)
    /\ Head(popupAwait).request = "EXPORT_CONVERSATION"
    /\ Head(popupAwait).settled = "resolved"
    /\ Head(popupAwait).error = NotFoundError

C21_NotCapturedShownAsNoData ==
    [][NotCapturedAnswered =>
            /\ popup'.lastError = "NO_DATA_AVAILABLE"
            /\ popup'.statusMessage = ErrorMessage("NO_DATA_AVAILABLE")
            /\ popup'.statusMessage \notin {ErrorMessage("UNSUPPORTED_PLATFORM"),
                                             ErrorMessage("EXPORT_FAILED")}]_vars

(***************************************************************************)
(* C22: for a content object with an unrecognized type tag, the extracted  *)
(* text is its generic free-text field if present, otherwise the           *)
(* concatenation of the string items of its fragments (parts) list,        *)
(* otherwise the empty string, in that order of precedence.                *)
(***************************************************************************)
Extracted == exImpl # "none" /\ ~exContent.isNull

StringParts(content) == MapItems(SelectItems(content.parts.items, IsStringPart), PartText)

\* the string items either run together or stand one per line
FallbackTexts(content) ==
    IF Truthy(content.text) THEN {content.text.s}
    ELSE IF content.parts.present
    THEN {join(StringParts(content), <<>>), join(StringParts(content), <<"\n">>)}
    ELSE {<<>>}

C22_UnrecognizedTagFallsBack ==
    (Extracted /\ exContent.content_type = "future_type") =>
        /\ ~exResult.threw
        /\ exResult.text \in FallbackTexts(exContent)

(***************************************************************************)
(* C23: for each recognized content-type tag the extracted text is exactly *)
(* the documented transformation: text gives its string parts joined by a  *)
(* newline, multimodal_text gives only its string and text-tagged parts    *)
(* joined by a newline, thoughts gives the thought contents joined by a    *)
(* blank line, execution_output gives the output text verbatim, and        *)
(* context-only content contributes no message text.                       *)
(***************************************************************************)
\* a null item of a thoughts list has no content: it is left out or counts
\* as an empty thought
DocumentedTexts(content) ==
    CASE content.content_type = "text" /\ content.parts.present ->
            {join(StringParts(content), <<"\n">>)}
      [] content.content_type = "multimodal_text" /\ content.parts.present ->
            {join(MapItems(SelectItems(content.parts.items, IsTextPart), PartText), <<"\n">>)}
      [] content.content_type = "thoughts" /\ content.thoughts.present ->
            {join(MapItems(content.thoughts.items, PartText), <<"\n", "\n">>),
             join(MapItems(SelectItems(content.thoughts.items, LAMBDA item : item.t # "null"),
                           PartText), <<"\n", "\n">>)}
      [] content.content_type = "execution_output" -> {OrEmpty(content.text)}
      [] content.content_type \in {"user_editable_context", "model_editable_context"} ->
            {<<>>}
      [] OTHER -> {exResult.text}

C23_DocumentedTransformation ==
    Extracted => /\ ~exResult.threw
                 /\ exResult.text \in DocumentedTexts(exContent)

(***************************************************************************)
(* The Claude table in full: ClaudeHandler.flattenConversationData builds  *)
(* the eleven columns of every message, generateCSV writes the file.       *)
(***************************************************************************)
\* x || d
JsTruthy(v) ==
    \/ v.t = "str" /\ v.s # <<>>
    \/ v.t = "bool" /\ v.n = 1
    \/ v.t = "num" /\ v.n # 0

OrElse(v, d) == IF JsTruthy(v) THEN v ELSE d

ClaudeConversation(uuid, name, messages) ==
    [kind |-> "claude", uuid |-> uuid, name |-> name, chat_messages |-> messages]

ClaudeChatMessage(uuid, parent, sender, content, createdAt, updatedAt, index, truncated,
                  stopReason) ==
    [uuid |-> uuid, parent_message_uuid |-> parent, sender |-> sender, content |-> content,
     created_at |-> createdAt, updated_at |-> updatedAt, index |-> index,
     truncated |-> truncated, stop_reason |-> stopReason]

\* the row object of one message, its values in key order
claudeRow(convJson, msg) ==
    <<OrElse(convJson.uuid, JsStr(<<>>)),
      OrElse(convJson.name, JsStr(<<>>)),
      OrElse(msg.uuid, JsStr(<<>>)),
      OrElse(msg.parent_message_uuid, JsStr(<<>>)),
      OrElse(msg.sender, JsStr(<<>>)),
      JsStr(HandlerExtractText(msg.content)),
      OrElse(msg.created_at, JsStr(<<>>)),
      OrElse(msg.updated_at, JsStr(<<>>)),
      IF msg.index.t # "undef" THEN msg.index ELSE JsStr(<<>>),
      OrElse(msg.truncated, JsBool(FALSE)),
      OrElse(msg.stop_reason, JsStr(<<>>))>>

claudeFlattenConversationData(convJson) ==
    [i \in 1..Len(convJson.chat_messages) |-> claudeRow(convJson, convJson.chat_messages[i])]

TextC1 == <<"c", "1">>
TextTest == <<"T", "e", "s", "t">>
TextM1 == <<"m", "1">>
TextHuman == <<"h", "u", "m", "a", "n">>
TextHi == <<"H", "i">>
TextDate ==
    <<"2", "0", "2", "4", "-", "0", "1", "-", "0", "1", "T", "0", "0", ":", "0", "0", ":",
      "0", "0", "Z">>

OptionalOf(S) == {JsUndef} \cup S

\* conversations of one message: the fields a message may lack are present
\* or absent
ClaudeExports ==
    {ClaudeConversation(JsStr(TextC1), name,
        <<ClaudeChatMessage(JsStr(TextM1), parent, JsStr(TextHuman),
                            Array(<<ItemObj("text", text)>>), JsStr(TextDate), updatedAt,
                            index, truncated, stopReason)>>) :
        name \in OptionalOf({JsStr(TextTest)}),
        parent \in OptionalOf({JsStr(<<"m", "0">>)}),
        text \in {TextHi, <<"a", ",", "b">>, <<>>},
        updatedAt \in OptionalOf({JsStr(TextDate)}),
        index \in OptionalOf({JsNum(0), JsNum(1)}),
        truncated \in OptionalOf({JsBool(FALSE), JsBool(TRUE)}),
        stopReason \in OptionalOf({JsStr(<<"e", "n", "d">>)})}

ClaudeCsvInit ==
    /\ csvTable = "none" /\ csvValue = JsNull /\ csvOut = <<>> /\ csvFile = <<>>
    /\ csvInput \in ClaudeExports
    /\ scraped = NotScraped
    /\ page = NoPage
    /\ ExIdle /\ BgIdle /\ FlowIdle

\* the Claude branch of handleConversationData: flatten, then generateCSV
WriteClaudeFile ==
    /\ csvTable = "none"
    /\ csvTable' = "claude_conversation"
    /\ csvFile' = generateCSV(Headers("claude_conversation"),
                              claudeFlattenConversationData(csvInput))
    /\ UNCHANGED <<csvValue, csvOut, csvInput, scraped, page, exVars, bgVars, flowVars>>

ClaudeCsvNext == WriteClaudeFile

SpecClaudeCsv == ClaudeCsvInit /\ [][ClaudeCsvNext]_vars

(***************************************************************************)
(* C24: for the Claude payload with conversation uuid c1, name Test and    *)
(* the single message {uuid: m1, sender: human, content: [{type: text,     *)
(* text: Hi}], created_at: 2024-01-01T00:00:00Z}, the second line of the   *)
(* generated CSV is exactly c1,Test,m1,,human,Hi,2024-01-01T00:00:00Z,,,,  *)
(* (fields absent from the source are empty).                              *)
(***************************************************************************)
ExamplePayload ==
    ClaudeConversation(JsStr(TextC1), JsStr(TextTest),
        <<ClaudeChatMessage(JsStr(TextM1), JsUndef, JsStr(TextHuman),
                            Array(<<ItemObj("text", TextHi)>>), JsStr(TextDate), JsUndef,
                            JsUndef, JsUndef, JsUndef)>>)

\* the text between the first line break of the file and the next one
SecondLine(doc) ==
    LET breaks == SelectSeq([i \in 1..Len(doc) |-> i], LAMBDA i : doc[i] = "\n")
    IN IF breaks = <<>> THEN <<>>
       ELSE SubSeq(doc, breaks[1] + 1,
                   IF Len(breaks) > 1 THEN breaks[2] - 1 ELSE Len(doc))

ExampleLine ==
    TextC1 \o <<",">> \o TextTest \o <<",">> \o TextM1 \o <<",", ",">> \o TextHuman
        \o <<",">> \o TextHi \o <<",">> \o TextDate \o <<",", ",", ",", ",">>

C24_ExampleSecondLine ==
    (csvTable = "claude_conversation" /\ csvInput = ExamplePayload) =>
        SecondLine(csvFile) = ExampleLine

(***************************************************************************)
(* C25: every output filename consists of the table prefix, one            *)
(* underscore, a single component that is either the conversation's short  *)
(* id or a timestamp, and the .csv extension; a Claude export is named     *)
(* claude_conversation_<TIMESTAMP>.csv and a Copilot export                *)
(* copilot_conversation_<TIMESTAMP>.csv.                                   *)
(***************************************************************************)
\* what stands between the prefix and the extension
NameComponents(filename) ==
    (IF filename.suffix # <<>> THEN <<"shortId">> ELSE <<>>) \o <<"timestamp">>

C25_PrefixAndOneComponent ==
    \A i \in 1..Len(bgLast.csvFiles) :
        LET file == bgLast.csvFiles[i] IN
        /\ file.filename.prefix = file.prefix
        /\ Len(NameComponents(file.filename)) = 1
        /\ bgLast.platform \in {"claude", "copilot"} =>
                NameComponents(file.filename) = <<"timestamp">>

(***************************************************************************)
(* The DOM-scraping content script (content.js): the messages of a Claude  *)
(* or DeepSeek page are read from the document, each with the timestamp of *)
(* its <time> element, and written to chat_export_<time>.csv.              *)
(***************************************************************************)
InvalidDate ==
    [valid |-> FALSE, year |-> 0, month |-> 0, day |-> 0, hours |-> 0, minutes |-> 0,
     seconds |-> 0, ms |-> 0]

JsDate(year, month, day, hours, minutes, seconds, ms) ==
    [valid |-> TRUE, year |-> year, month |-> month, day |-> day, hours |-> hours,
     minutes |-> minutes, seconds |-> seconds, ms |-> ms]

IsDigit(c) == \E d \in 0..9 : Digit(d) = <<c>>

DigitValue(c) == CHOOSE d \in 0..9 : Digit(d) = <<c>>

RECURSIVE DigitsValue(_)
DigitsValue(s) ==
    IF s = <<>> THEN 0
    ELSE 10 * DigitsValue(SubSeq(s, 1, Len(s) - 1)) + DigitValue(s[Len(s)])

Pad(n, width) == [i \in 1..width |-> Digit((n \div 10 ^ (width - i)) % 10)[1]]

\* Date.prototype.toISOString: YYYY-MM-DDTHH:mm:ss.sssZ
toISOString(date) ==
    Pad(date.year, 4) \o <<"-">> \o Pad(date.month, 2) \o <<"-">> \o Pad(date.day, 2)
        \o <<"T">> \o Pad(date.hours, 2) \o <<":">> \o Pad(date.minutes, 2) \o <<":">>
        \o Pad(date.seconds, 2) \o <<".">> \o Pad(date.ms, 3) \o <<"Z">>

\* a string with every digit replaced by 9
Shape(s) == [i \in 1..Len(s) |-> IF IsDigit(s[i]) THEN "9" ELSE s[i]]

ShapeYear == <<"9", "9", "9", "9">>
ShapeMonth == ShapeYear \o <<"-", "9", "9">>
ShapeDay == ShapeMonth \o <<"-", "9", "9">>
ShapeSeconds == ShapeDay \o <<"T", "9", "9", ":", "9", "9", ":", "9", "9", "Z">>
ShapeMs == ShapeDay \o <<"T", "9", "9", ":", "9", "9", ":", "9", "9", ".", "9", "9", "9", "Z">>

FieldAt(s, from, width, default) ==
    IF Len(s) >= from + width - 1 THEN DigitsValue(SubSeq(s, from, from + width - 1))
    ELSE default

\* new Date(string): the date-time string format of the language (the year,
\* year-month and date forms, and the UTC date-time forms with seconds);
\* a field out of its range gives an invalid date.  A string outside the
\* format goes to the engine's fallback parser, which rejects digits run
\* together (20240101T00:00:00Z) and plain words.
DateParse(s) ==
    IF Shape(s) \in {ShapeYear, ShapeMonth, ShapeDay, ShapeSeconds, ShapeMs}
    THEN LET date == JsDate(FieldAt(s, 1, 4, 0), FieldAt(s, 6, 2, 1), FieldAt(s, 9, 2, 1),
                            FieldAt(s, 12, 2, 0), FieldAt(s, 15, 2, 0),
                            FieldAt(s, 18, 2, 0), FieldAt(s, 21, 3, 0))
         IN IF /\ date.month \in 1..12 /\ date.day \in 1..31 /\ date.hours \in 0..23
               /\ date.minutes \in 0..59 /\ date.seconds \in 0..59
            THEN date ELSE InvalidDate
    ELSE InvalidDate

\* String.prototype.trim, for blanks
trim(s) ==
    LET inked == {i \in 1..Len(s) : s[i] # " "}
    IN IF inked = {} THEN <<>>
       ELSE SubSeq(s, CHOOSE i \in inked : \A j \in inked : i <= j,
                      CHOOSE i \in inked : \A j \in inked : i >= j)

MinYear == 2020
MaxYear == 2100

\* clock is what new Date() reads
sanitizeTimestamp(timestampStr, clock) ==
    IF timestampStr = <<>> THEN toISOString(clock)
    ELSE LET cleaned == SelectSeq(trim(timestampStr),
                                  LAMBDA c : c \notin {"=", "+", "-", "@"})
             date == DateParse(cleaned)
         IN IF ~date.valid \/ date.year < MinYear \/ date.year > MaxYear
            THEN toISOString(clock)
            ELSE toISOString(date)

\* a message element of the page: whether it holds a <time> element, that
\* element's datetime attribute (null when it has none) and text, and the
\* text extractTextContent reads from the message
PageNode(role, time, datetime, timeText, text) ==
    [role |-> role, time |-> time, datetime |-> datetime, timeText |-> timeText,
     text |-> text]

\* getAttribute('datetime') || textContent.trim()
rawTimestamp(node) ==
    IF node.datetime.t = "str" /\ node.datetime.s # <<>> THEN node.datetime.s
    ELSE trim(node.timeText)

NodeTimestamp(node, clock) ==
    IF node.time THEN sanitizeTimestamp(rawTimestamp(node), clock)
    ELSE toISOString(clock)

\* the elements whose message is kept, in document order
WithContent(nodes) ==
    SelectSeq([i \in 1..Len(nodes) |-> i], LAMBDA i : Len(nodes[i].text) > 0)

ScrapedMessages(nodes, clock, source) ==
    LET kept == WithContent(nodes)
    IN [k \in 1..Len(kept) |->
            [index |-> k - 1, role |-> nodes[kept[k]].role,
             timestamp |-> NodeTimestamp(nodes[kept[k]], clock),
             content |-> nodes[kept[k]].text, source |-> source]]

extractClaudeMessages(nodes, clock) ==
    ScrapedMessages(nodes, clock, <<"c", "l", "a", "u", "d", "e">>)

extractDeepseekMessages(nodes, clock) ==
    ScrapedMessages(nodes, clock, <<"d", "e", "e", "p", "s", "e", "e", "k">>)

extractMessages(siteType, nodes, clock) ==
    IF siteType = "claude" THEN extractClaudeMessages(nodes, clock)
    ELSE IF siteType = "deepseek" THEN extractDeepseekMessages(nodes, clock)
    ELSE <<>>

\* the rows generateCSV writes for the messages
ScrapedRows(messages) ==
    [k \in 1..Len(messages) |->
        <<JsNum(messages[k].index), JsStr(messages[k].role), JsStr(messages[k].timestamp),
          JsStr(messages[k].content), JsStr(messages[k].source)>>]

Page(siteType, nodes, clock) ==
    [kind |-> "page", siteType |-> siteType, nodes |-> nodes, clock |-> clock]

TextDateMs ==
    SubSeq(TextDate, 1, 19) \o <<".", "0", "0", "0", "Z">>
TextDay == <<"2", "0", "2", "4", "-", "0", "6", "-", "1", "5">>
TextYear == <<"2", "0", "2", "4">>
TextOldDate == <<"2", "0", "1", "9">> \o SubSeq(TextDate, 5, 20)
TextFarDay == <<"2", "1", "0", "1">> \o SubSeq(TextDay, 5, 10)
TextUser == <<"u", "s", "e", "r">>

\* datetime attributes in the date-time string format
IsoTexts == {TextDate, TextDateMs, TextDay, TextYear, TextOldDate, TextFarDay}

MaxPageNodes == 2

PageNodes ==
    {PageNode(TextUser, FALSE, JsNull, <<>>, text) : text \in {TextHi, <<>>}}
        \cup {PageNode(TextUser, TRUE, JsStr(datetime), <<>>, text) :
                datetime \in IsoTexts, text \in {TextHi, <<>>}}
        \cup {PageNode(TextUser, TRUE, datetime, timeText, TextHi) :
                datetime \in {JsNull, JsStr(<<>>)},
                timeText \in {<<>>, <<" ">> \o TextYear \o <<" ">>, <<"n", "o", "w">>}}

PageClocks == {JsDate(2026, 11, 1, 12, 0, 0, 500), JsDate(2025, 3, 4, 5, 6, 7, 8)}

Pages ==
    {Page(siteType, nodes, clock) :
        siteType \in {"claude", "deepseek", "none"},
        nodes \in UNION {[1..n -> PageNodes] : n \in 1..MaxPageNodes},
        clock \in PageClocks}

ScrapeInit ==
    /\ csvTable = "none" /\ csvValue = JsNull /\ csvOut = <<>> /\ csvFile = <<>>
    /\ csvInput \in Pages
    /\ scraped = NotScraped
    /\ page = NoPage
    /\ ExIdle /\ BgIdle /\ FlowIdle

\* the script's run on a page: the site is detected, the messages are
\* extracted, and the file is generated unless there are none
ScrapePage ==
    /\ ~scraped.ran
    /\ LET messages == extractMessages(csvInput.siteType, csvInput.nodes, csvInput.clock)
       IN IF csvInput.siteType = "none"
          THEN /\ scraped' = [ran |-> TRUE, messages |-> <<>>, alert |-> "not supported"]
               /\ UNCHANGED <<csvTable, csvFile>>
          ELSE IF messages = <<>>
          THEN /\ scraped' = [ran |-> TRUE, messages |-> <<>>, alert |-> "no messages"]
               /\ UNCHANGED <<csvTable, csvFile>>
          ELSE /\ scraped' = [ran |-> TRUE, messages |-> messages, alert |-> "exported"]
               /\ csvTable' = "chat_export"
               /\ csvFile' = scraperGenerateCSV(Headers("chat_export"),
                                                ScrapedRows(messages))
    /\ UNCHANGED <<csvValue, csvOut, csvInput, page, exVars, bgVars, flowVars>>

ScrapeNext == ScrapePage

SpecScrape == ScrapeInit /\ [][ScrapeNext]_vars

(***************************************************************************)
(* C26: in the DOM-scrape export, a message for which the page offers no   *)
(* timestamp (no <time> element, or one with neither a datetime attribute  *)
(* nor text) is exported with the empty string as its timestamp.           *)
(***************************************************************************)
\* the page element the k-th exported message was read from
NodeOf(k) == csvInput.nodes[WithContent(csvInput.nodes)[k]]

NoTimestampAvailable(node) == ~node.time \/ rawTimestamp(node) = <<>>

C26_NoTimestampIsEmpty ==
    \A k \in 1..Len(scraped.messages) :
        NoTimestampAvailable(NodeOf(k)) => scraped.messages[k].timestamp = <<>>

(***************************************************************************)
(* C27: in the DOM-scrape export, a message whose <time> element carries a *)
(* valid ISO-8601 timestamp with a year from 2020 to 2100 is exported with *)
(* a timestamp that denotes the same instant; the time of the export does  *)
(* not take its place.                                                     *)
(***************************************************************************)
ValidIsoInRange(node) ==
    /\ node.time
    /\ DateParse(rawTimestamp(node)).valid
    /\ DateParse(rawTimestamp(node)).year \in MinYear..MaxYear

C27_ValidTimestampKept ==
    \A k \in 1..Len(scraped.messages) :
        ValidIsoInRange(NodeOf(k)) =>
            /\ DateParse(scraped.messages[k].timestamp) = DateParse(rawTimestamp(NodeOf(k)))
            /\ scraped.messages[k].timestamp # toISOString(csvInput.clock)

(***************************************************************************)
(* The export rate limit alone: the user clicks the export button of one   *)
(* popup, opened on a Claude tab, again and again while seconds pass.  The *)
(* conversation of the tab was captured, or it was not and every export    *)
(* fails.                                                                  *)
(***************************************************************************)
MaxRateTicks == 22
RateTickMs == minInterval \div 2

\* a second passes; the messages in flight and the 500 ms timer of
\* displayError have been handled by then
RateTick ==
    /\ now < MaxRateTicks * RateTickMs
    /\ tabInbox = <<>> /\ bgInbox = <<>> /\ popupAwait = <<>> /\ forwardSettled = <<>>
    /\ popup.reenableTimers = 0
    /\ now' = now + RateTickMs
    /\ UNCHANGED <<csvVars, exVars, popupVars, contentVars, channelVars, bgVars>>

RateInit ==
    /\ CsvIdle /\ ExIdle /\ BgIdle
    /\ now = minInterval
    /\ popup = PopupReady("claude", JsStr(ConversationC1))
    /\ exportRateLimit = [lastExport |-> 0, recentExports |-> <<>>]
    /\ popupAwait = <<>>
    /\ secretKey = NoKey
    /\ capturedConversations = <<>>
    /\ conversationTimestamps = <<>>
    /\ verifying = {}
    /\ claudeConversations \in {<<>>, ClaudeStoredUpTo(1)}
    /\ history = NoHistory
    /\ tabInbox = <<>>
    /\ bgInbox = <<>>
    /\ forwardSettled = <<>>

RateNext ==
    \/ RateTick
    \/ PopupExportClick
    \/ ContentOnMessage
    \/ BackgroundReceives
    \/ ContentForwardSettled
    \/ OrchDownloadStarts
    \/ PopupExportSettled
    \/ PopupReenable
    \/ PopupClose

SpecRate == RateInit /\ [][RateNext]_vars

(***************************************************************************)
(* C29: any two export clicks that a popup accepted are at least 2000 ms   *)
(* apart, and it accepted no more than 10 within any 60-second window.     *)
(***************************************************************************)
\* how many accepted clicks fall into the minute that ends with click j
AcceptedInWindow(j) ==
    Cardinality({i \in 1..j : history.clicks[j] - history.clicks[i] < RateWindowMs})

MaxPopupTicks == 1
PopupTickMs == minInterval

ChecksInFlight ==
    Len(SelectSeq(tabInbox, LAMBDA r : r.message.type = "GET_CAPTURED_CONVERSATIONS"))
        + Len(SelectSeq(popupAwait, LAMBDA r : r.request = "GET_CAPTURED_CONVERSATIONS"))

\* the popup's runtime.onMessage listener receives the CONVERSATION_READY
\* message the content script is sending, and the debounced
\* checkAndUpdateUI runs
PopupNotified ==
    /\ popup.open
    /\ \E i \in 1..Len(bgInbox) : bgInbox[i].msg.type = "CONVERSATION_READY"
    /\ ChecksInFlight < MaxInFlight
    /\ LET checked == checkAndUpdateUI(popup)
       IN /\ popup' = checked.popup
          /\ tabInbox' = IF checked.asks THEN Append(tabInbox, CheckRequest(popup.tab))
                         ELSE tabInbox
    /\ UNCHANGED <<csvVars, exVars, now, exportRateLimit, popupAwait, contentVars, bgInbox,
                   forwardSettled, bgVars>>

\* the page script posts the conversation it captured, once
PopupCapture ==
    /\ verifying = {}
    /\ history.accepted = {}
    /\ ExpiryCapture

PopupTick ==
    /\ now < (MaxPopupTicks + 1) * PopupTickMs
    /\ now' = now + PopupTickMs
    /\ UNCHANGED <<csvVars, exVars, popupVars, contentVars, channelVars, bgVars>>

PopupInit ==
    /\ CsvIdle /\ ExIdle /\ BgIdle
    /\ now = PopupTickMs
    /\ popup = PopupReady("chatgpt", JsStr(ConversationC1))
    /\ exportRateLimit = [lastExport |-> 0, recentExports |-> <<>>]
    /\ popupAwait = <<>>
    /\ secretKey = "k1"
    /\ \E n \in {0, 1} :
            /\ capturedConversations = StoredUpTo(n).conversations
            /\ conversationTimestamps = StoredUpTo(n).timestamps
    /\ verifying = {}
    /\ claudeConversations = <<>>
    /\ history = NoHistory
    /\ tabInbox = <<>>
    /\ bgInbox = <<>>
    /\ forwardSettled = <<>>

PopupNext ==
    \/ PopupTick
    \/ PopupCapture
    \/ ChatGPTListenerResumes
    \/ PopupNotified
    \/ PopupCheckSettled
    \/ PopupExportClick
    \/ ContentOnMessage
    \/ BackgroundReceives
    \/ ContentForwardSettled
    \/ OrchDownloadStarts
    \/ PopupExportSettled
    \/ PopupReenable
    \/ PopupClose

SpecPopup == PopupInit /\ [][PopupNext]_vars

(***************************************************************************)
(* C28: at most one export request of a popup is in flight at any time: a  *)
(* click on the export button while an export is in progress sends no      *)
(* further EXPORT_CONVERSATION message.                                    *)
(***************************************************************************)
\* the export requests sent and not yet settled in the popup: on their way
\* to the content script, forwarded by it to the background, or answered
ExportsInFlight ==
    Len(SelectSeq(tabInbox, LAMBDA r : r.message.type = "EXPORT_CONVERSATION"))
        + Len(SelectSeq(bgInbox, LAMBDA m : m.then = "sendResponse"))
        + Len(forwardSettled)
        + Len(SelectSeq(popupAwait, LAMBDA r : r.request = "EXPORT_CONVERSATION"))

C28_OneExportInFlight == ExportsInFlight <= 1

\* the button was enabled again while the export was on its way, and the
\* click on it was dropped
C28_ClickDuringExport ==
    /\ history.lastClick = "exporting"
    /\ ExportsInFlight = 1
    /\ popup.isExporting /\ popup.canExport

(***************************************************************************)
(* The same popup under fair scheduling: a message that was sent is        *)
(* delivered, a promise that settled runs its continuation, a timer that   *)
(* was set fires.  Nothing obliges the user to click, the page to capture  *)
(* or the clock to reach a given time.                                     *)
(***************************************************************************)
PopupFairness ==
    /\ WF_vars(ChatGPTListenerResumes)
    /\ WF_vars(PopupCheckSettled)
    /\ WF_vars(ContentOnMessage)
    /\ WF_vars(BackgroundReceives)
    /\ WF_vars(ContentForwardSettled)
    /\ WF_vars(OrchDownloadStarts)
    /\ WF_vars(PopupExportSettled)
    /\ WF_vars(PopupReenable)
    /\ WF_vars(PopupClose)

SpecPopupFair == PopupInit /\ [][PopupNext]_vars /\ PopupFairness

(***************************************************************************)
(* C30: every export attempt eventually leaves the exporting state: once   *)
(* the attempt has completed, with success or with an error, isExporting   *)
(* is false again, so that a later click within the rate limits starts a   *)
(* new export.                                                             *)
(***************************************************************************)
C30_ExportingEnds == popup.isExporting ~> ~popup.isExporting

(***************************************************************************)
(* The popup while the page under it changes: every checkAndUpdateUI asks  *)
(* tabs.query again, so that a check may find another page, another        *)
(* conversation, or no tab at all.  Time advances by the delay of the       *)
(* re-enable timer of displayError, and a timer that was set fires before   *)
(* that delay has passed; the run ends before the first poll, 10 s after    *)
(* init.                                                                    *)
(***************************************************************************)
MaxButtonTicks == 1
MaxPendingTimers == 1
ReenableDelayMs == 500

ConversationC2 == <<"c", "2">>

\* what tabs.query returns: no tab, a page of no platform, a ChatGPT page
QueriedTabs == {"none", "other", "chatgpt"}
\* the conversation id in the URL of the tab: none, c1, c2 (not captured yet)
QueriedIds == {JsNull, JsStr(ConversationC1), JsStr(ConversationC2)}

\* checkAndUpdateUI from the result of tabs.query up to the await inside
\* checkConversationData
checkActiveTab(p, tab, conversationId) ==
    IF tab = "none" THEN [popup |-> displayError(p, "NO_ACTIVE_TAB"), asks |-> FALSE]
    ELSE IF tab \notin Platforms THEN checkAndUpdateUI([p EXCEPT !.tab = tab])
    ELSE checkAndUpdateUI([p EXCEPT !.tab = tab, !.conversationId = conversationId])

\* the user opens the popup: init() runs its first check and starts polling
ButtonOpens ==
    /\ ~popup.open
    /\ tabInbox = <<>> /\ popupAwait = <<>> /\ forwardSettled = <<>>
    /\ Len(timers) + Len(downloads) < MaxFiles
    /\ \E tab \in QueriedTabs, conversationId \in QueriedIds :
         \E checked \in {checkActiveTab(PopupLoaded("none", JsNull), tab,
                                        conversationId)} :
            /\ popup' = checked.popup
            /\ tabInbox' = IF checked.asks THEN Append(tabInbox, CheckRequest(tab))
                           ELSE tabInbox
    /\ exportRateLimit' = [lastExport |-> 0, recentExports |-> <<>>]
    /\ history' = [history EXCEPT !.clicks = <<>>, !.lastClick = "none"]
    /\ UNCHANGED <<csvVars, exVars, now, popupAwait, cacheVars, bgInbox, forwardSettled,
                   bgVars>>

\* the popup's runtime.onMessage listener receives the CONVERSATION_READY
\* message the content script is sending, and the debounced
\* checkAndUpdateUI runs on the tab that is active then
ButtonNotified ==
    /\ popup.open
    /\ \E i \in 1..Len(bgInbox) : bgInbox[i].msg.type = "CONVERSATION_READY"
    /\ ChecksInFlight = 0
    /\ \E tab \in QueriedTabs, conversationId \in QueriedIds :
         \E checked \in {checkActiveTab(popup, tab, conversationId)} :
            /\ checked.popup.reenableTimers <= MaxPendingTimers
            /\ popup' = checked.popup
            /\ tabInbox' = IF checked.asks THEN Append(tabInbox, CheckRequest(tab))
                           ELSE tabInbox
    /\ UNCHANGED <<csvVars, exVars, now, exportRateLimit, popupAwait, contentVars, bgInbox,
                   forwardSettled, bgVars>>

\* tabs.sendMessage rejects for lack of permission on the tab
ButtonTabUnreachable == TabUnreachable(PermissionError)

ButtonTick ==
    /\ now < minInterval + MaxButtonTicks * ReenableDelayMs
    /\ popup.reenableTimers = 0
    /\ now' = now + ReenableDelayMs
    /\ UNCHANGED <<csvVars, exVars, popupVars, contentVars, channelVars, bgVars>>

ButtonInit ==
    /\ CsvIdle /\ ExIdle /\ BgIdle
    /\ now = minInterval
    /\ popup = [PopupLoaded("none", JsNull) EXCEPT !.open = FALSE, !.isPolling = FALSE]
    /\ exportRateLimit = [lastExport |-> 0, recentExports |-> <<>>]
    /\ popupAwait = <<>>
    /\ secretKey = "k1"
    /\ capturedConversations = <<>>
    /\ conversationTimestamps = <<>>
    /\ verifying = {}
    /\ claudeConversations = <<>>
    /\ history = NoHistory
    /\ tabInbox = <<>>
    /\ bgInbox = <<>>
    /\ forwardSettled = <<>>

ButtonNext ==
    \/ ButtonOpens
    \/ ButtonTick
    \/ PopupCapture
    \/ ChatGPTListenerResumes
    \/ ButtonNotified
    \/ PopupCheckSettled
    \/ PopupExportClick
    \/ ContentOnMessage
    \/ ButtonTabUnreachable
    \/ BackgroundReceives
    \/ ContentForwardSettled
    \/ OrchDownloadStarts
    \/ PopupExportSettled
    \/ PopupReenable
    \/ PopupClose

SpecButton == ButtonInit /\ [][ButtonNext]_vars

\* the popup shows that error of ERROR_TYPES
Displays(p, errorType) ==
    /\ p.open
    /\ p.statusType = "error"
    /\ p.statusMessage = ErrorMessage(errorType)
    /\ p.lastError = errorType

(***************************************************************************)
(* C31: while a permanent error (UNSUPPORTED_PLATFORM, PERMISSION_DENIED)  *)
(* is displayed, the export button becomes enabled only by a status check  *)
(* that finds an exportable state and shows it; the 500 ms re-enable timer *)
(* of an earlier non-permanent error never enables it.                     *)
(***************************************************************************)
C31_PermanentErrorKeepsDisabled ==
    [][(/\ \E errorType \in permanentErrors : Displays(popup, errorType)
        /\ ~popup.canExport
        /\ popup'.open /\ popup'.canExport)
       => popup'.statusType = "success"]_vars

C33_LoadingMeansPolling ==
    (/\ popup.open
     /\ popup.statusType = "loading"
     /\ popup.statusMessage = LoadingMessage(popup.tab)
     /\ ~popup.canExport)
    => popup.isPolling

(***************************************************************************)
(* ChatGPT page script (inject.js): the window.fetch hook, the active      *)
(* fetch on URL changes, and the signed window messages it posts           *)
(***************************************************************************)
MAX_RESPONSE_SIZE == 104857600
MaxPageEvents == 3
MaxRequests == 2

JsonType ==
    <<"a", "p", "p", "l", "i", "c", "a", "t", "i", "o", "n", "/", "j", "s",
      "o", "n">>
HtmlType ==
    <<"t", "e", "x", "t", "/", "h", "t", "m", "l">>
BackendApiText ==
    <<"b", "a", "c", "k", "e", "n", "d", "-", "a", "p", "i">>
BackendConversationText ==
    <<"/", "b", "a", "c", "k", "e", "n", "d", "-", "a", "p", "i", "/", "c",
      "o", "n", "v", "e", "r", "s", "a", "t", "i", "o", "n", "/">>
ApiConversationText ==
    <<"/", "a", "p", "i", "/", "c", "o", "n", "v", "e", "r", "s", "a", "t",
      "i", "o", "n", "/">>
ConversationPathText ==
    <<"/", "c", "o", "n", "v", "e", "r", "s", "a", "t", "i", "o", "n", "/">>
ListText ==
    <<"/", "c", "o", "n", "v", "e", "r", "s", "a", "t", "i", "o", "n", "s",
      "?">>
ConversationUrlText ==
    <<"/", "c", "/">>
UrlHome ==
    <<"h", "t", "t", "p", "s", ":", "/", "/", "c", "h", "a", "t", "g", "p",
      "t", ".", "c", "o", "m", "/">>
UrlC1 ==
    <<"h", "t", "t", "p", "s", ":", "/", "/", "c", "h", "a", "t", "g", "p",
      "t", ".", "c", "o", "m", "/", "c", "/", "c", "1">>
UrlC2 ==
    <<"h", "t", "t", "p", "s", ":", "/", "/", "c", "h", "a", "t", "g", "p",
      "t", ".", "c", "o", "m", "/", "c", "/", "c", "2">>
UrlApiC1 ==
    <<"h", "t", "t", "p", "s", ":", "/", "/", "c", "h", "a", "t", "g", "p",
      "t", ".", "c", "o", "m", "/", "b", "a", "c", "k", "e", "n", "d", "-",
      "a", "p", "i", "/", "c", "o", "n", "v", "e", "r", "s", "a", "t", "i",
      "o", "n", "/", "c", "1">>
UrlApiList ==
    <<"h", "t", "t", "p", "s", ":", "/", "/", "c", "h", "a", "t", "g", "p",
      "t", ".", "c", "o", "m", "/", "b", "a", "c", "k", "e", "n", "d", "-",
      "a", "p", "i", "/", "c", "o", "n", "v", "e", "r", "s", "a", "t", "i",
      "o", "n", "s", "?", "o", "f", "f", "s", "e", "t", "=", "0">>
UrlApiMe ==
    <<"h", "t", "t", "p", "s", ":", "/", "/", "c", "h", "a", "t", "g", "p",
      "t", ".", "c", "o", "m", "/", "b", "a", "c", "k", "e", "n", "d", "-",
      "a", "p", "i", "/", "m", "e">>
UrlOther ==
    <<"h", "t", "t", "p", "s", ":", "/", "/", "c", "d", "n", ".", "e", "x",
      "a", "m", "p", "l", "e", "/", "c", "o", "n", "v", "e", "r", "s", "a",
      "t", "i", "o", "n", "/", "c", "2">>

\* [a-f0-9-], case-insensitive
IsIdChar(c) ==
    Lower(c) \in {"a", "b", "c", "d", "e", "f", "-",
                  "0", "1", "2", "3", "4", "5", "6", "7", "8", "9"}

\* the positions right after an occurrence of sub in s that is followed by
\* at least one id character
IdStarts(s, sub) ==
    {i \in (Len(sub) + 1)..Len(s) :
        /\ SubSeq(s, i - Len(sub), i - 1) = sub
        /\ IsIdChar(s[i])}

\* url.match(/\/c\/([a-f0-9-]+)/i)[1], or the empty string without a match
conversationIdOf(url) ==
    IF IdStarts(url, ConversationUrlText) = {} THEN <<>>
    ELSE LET first == CHOOSE i \in IdStarts(url, ConversationUrlText) :
                          \A j \in IdStarts(url, ConversationUrlText) : i <= j
             last == CHOOSE k \in first..Len(url) :
                          /\ \A j \in first..k : IsIdChar(url[j])
                          /\ (k < Len(url) => ~IsIdChar(url[k + 1]))
         IN SubSeq(url, first, last)

\* parseInt(s, 10): the value of the leading digits, -1 for NaN
parseInt10(s) ==
    LET n == CHOOSE k \in 0..Len(s) :
                 /\ \A i \in 1..k : IsDigit(s[i])
                 /\ (k < Len(s) => ~IsDigit(s[k + 1]))
    IN IF n = 0 THEN -1 ELSE DigitsValue(SubSeq(s, 1, n))

\* a Response: its headers, whether clone() works, whether its body parses
\* as JSON, and the value it parses to
Response(ok, contentType, contentLength, cloneable, parses, data) ==
    [ok |-> ok, contentType |-> contentType, contentLength |-> contentLength,
     cloneable |-> cloneable, parses |-> parses, data |-> data]

\* validateResponse(response).isValid
validateResponse(response) ==
    /\ response.ok
    /\ response.contentType.t = "str"
    /\ includesText(response.contentType.s, JsonType)
    /\ (JsTruthy(response.contentLength) =>
            /\ parseInt10(response.contentLength.s) # -1
            /\ parseInt10(response.contentLength.s) <= MAX_RESPONSE_SIZE)

\* data.conversation_id || data.id
conversationIdIn(data) == OrElse(data.conversation_id, data.id)

\* sendDataToContentScript: the id is recorded, then the secret is read from
\* the meta tag, the message is signed and posted
sendDataToContentScript(pg, data, secret, signs, dateNow) ==
    IF data.kind # "object" THEN pg
    ELSE IF data.mapping.t = "absent" /\ ~JsTruthy(data.conversation_id) THEN pg
    ELSE LET recorded ==
                 IF JsTruthy(conversationIdIn(data))
                 THEN [pg EXCEPT !.capturedIds = @ \cup {conversationIdIn(data).s}]
                 ELSE pg
         IN IF secret = NoKey THEN recorded
            ELSE IF ~signs THEN recorded
            ELSE [recorded EXCEPT !.posted =
                     Append(@, createSignedMessage(data, "CHATGPT_CONVERSATION_DATA",
                                   "chatgpt-exporter-inject", "chatgpt", secret, dateNow,
                                   "n1"))]

\* fetchConversation up to its first await
fetchConversation(pg, conversationId) ==
    IF conversationId \in pg.capturedIds THEN pg
    ELSE IF ~pg.capturedHeaders THEN pg
    ELSE [pg EXCEPT !.fetching = Append(@, conversationId),
                    !.issued = Append(@, conversationId)]

\* fetchConversation after originalFetch resolved
fetchConversationSettled(pg, response, secret, signs, dateNow) ==
    IF ~validateResponse(response) THEN pg
    ELSE IF ~response.parses THEN pg
    ELSE IF response.data.kind # "object" THEN pg
    ELSE sendDataToContentScript(pg, response.data, secret, signs, dateNow)

checkCurrentUrl(pg) ==
    IF conversationIdOf(pg.location) # <<>>
    THEN fetchConversation(pg, conversationIdOf(pg.location))
    ELSE pg

\* url.match(/\/conversation\/[a-f0-9-]+/i)
isConversationRequest(url) ==
    \/ includesText(url, BackendConversationText)
    \/ includesText(url, ApiConversationText)
    \/ IdStarts(url, ConversationPathText) # {}

isListRequest(url) == includesText(url, ListText)

\* the hook after originalFetch resolved with a mutant return value: the
\* clone it read, where it made one
hookedFetchReturnsClone(url, response, object) ==
    IF isConversationRequest(url)
    THEN IF ~validateResponse(response)
         THEN [returned |-> [object |-> object, clone |-> FALSE], parses |-> FALSE]
         ELSE IF ~response.cloneable
         THEN [returned |-> [object |-> object, clone |-> FALSE], parses |-> FALSE]
         ELSE [returned |-> [object |-> object, clone |-> TRUE], parses |-> TRUE]
    ELSE [returned |-> [object |-> object, clone |-> FALSE], parses |-> FALSE]

\* the hook after originalFetch resolved with that response object: what it
\* returns, and whether it handed a clone to json()
hookedFetch(url, response, object) ==
    IF isConversationRequest(url)
    THEN IF ~validateResponse(response)
         THEN [returned |-> [object |-> object, clone |-> FALSE], parses |-> FALSE]
         ELSE IF ~response.cloneable
         THEN [returned |-> [object |-> object, clone |-> FALSE], parses |-> FALSE]
         ELSE [returned |-> [object |-> object, clone |-> FALSE], parses |-> TRUE]
    ELSE IF isListRequest(url)
    THEN [returned |-> [object |-> object, clone |-> FALSE], parses |-> FALSE]
    ELSE [returned |-> [object |-> object, clone |-> FALSE], parses |-> FALSE]

\* what the server sends for a conversation: the conversation, an object
\* carrying only an id, an error object, null
ServerData(conversationId) ==
    {[PlainChatGPT EXCEPT !.conversation_id = JsStr(conversationId)],
     [Payload(JsUndef, Absent, Absent, Absent, SmallSize) EXCEPT !.id = JsStr(conversationId)],
     Payload(JsUndef, Absent, Absent, Absent, SmallSize),
     NullPayload}

LengthHeaders ==
    {JsNull, JsStr(<<"9", "9">>), JsStr(<<"x">>),
     JsStr(<<"1", "0", "4", "8", "5", "7", "6", "0", "1">>)}

\* the responses to a request for that conversation: a good one with each
\* body, and one for each way of failing validation, cloning or parsing
ServerResponses(conversationId) ==
    {Response(TRUE, JsStr(JsonType), JsStr(<<"9", "9">>), TRUE, TRUE, data) :
        data \in ServerData(conversationId)}
    \cup {Response(TRUE, JsStr(JsonType), length, TRUE, TRUE, NullPayload) :
            length \in LengthHeaders}
    \cup {Response(FALSE, JsStr(JsonType), JsNull, TRUE, TRUE, NullPayload),
          Response(TRUE, JsStr(HtmlType), JsNull, TRUE, TRUE, NullPayload),
          Response(TRUE, JsNull, JsNull, TRUE, TRUE, NullPayload),
          Response(TRUE, JsStr(JsonType), JsNull, FALSE, TRUE, NullPayload),
          Response(TRUE, JsStr(JsonType), JsNull, TRUE, FALSE, NullPayload)}

\* pushState, replaceState or popstate: the URL is that one now
PageUrlChanges ==
    /\ page.events < MaxPageEvents
    /\ \E url \in {UrlHome, UrlC1, UrlC2} :
          page' = checkCurrentUrl([page EXCEPT !.location = url, !.events = @ + 1])
    /\ UNCHANGED <<csvTable, csvValue, csvOut, csvFile, csvInput, scraped>>
    /\ UNCHANGED <<exVars, bgVars, flowVars>>

\* the originalFetch of an active fetch settles
PageFetchSettles ==
    /\ \E i \in DOMAIN page.fetching :
          \/ page' = [page EXCEPT !.fetching = Without(@, i)]
          \/ \E response \in ServerResponses(page.fetching[i]), signs \in BOOLEAN :
                page' = fetchConversationSettled(
                            [page EXCEPT !.fetching = Without(@, i)],
                            response, secretKey, signs, now)
    /\ UNCHANGED <<csvTable, csvValue, csvOut, csvFile, csvInput, scraped>>
    /\ UNCHANGED <<exVars, bgVars, flowVars>>

\* the page calls the hooked window.fetch: the headers of a backend-api
\* request that carries Authorization are kept, originalFetch is called
PageRequest ==
    /\ page.events < MaxPageEvents
    /\ Len(page.calls) + Len(page.results) < MaxRequests
    /\ \E url \in {UrlApiC1, UrlApiList, UrlApiMe, UrlOther}, authorization \in BOOLEAN :
          page' = [page EXCEPT
                     !.capturedHeaders =
                         IF includesText(url, BackendApiText) /\ ~@ /\ authorization
                         THEN TRUE ELSE @,
                     !.calls = Append(@, url),
                     !.events = @ + 1]
    /\ UNCHANGED <<csvTable, csvValue, csvOut, csvFile, csvInput, scraped>>
    /\ UNCHANGED <<exVars, bgVars, flowVars>>

\* originalFetch of a hooked call settles: it rejects and so does the hook,
\* or the hook runs on the response and returns
PageResponse ==
    /\ \E i \in DOMAIN page.calls :
          \/ page' = [page EXCEPT !.calls = Without(@, i),
                                  !.results = Append(@, [intercepted |-> FALSE,
                                                         settled |-> "rejected",
                                                         object |-> 0,
                                                         cloneable |-> FALSE,
                                                         returned |-> [object |-> 0,
                                                                       clone |-> FALSE]])]
          \/ \E response \in ServerResponses(ConversationC1) :
               \E hooked \in {hookedFetch(page.calls[i], response, Len(page.results) + 1)} :
                page' = [page EXCEPT
                           !.calls = Without(@, i),
                           !.parsing = IF hooked.parses
                                       THEN Append(@, [parses |-> response.parses,
                                                       data |-> response.data])
                                       ELSE @,
                           !.results = Append(@, [intercepted |->
                                                      isConversationRequest(page.calls[i]),
                                                  settled |-> "resolved",
                                                  object |-> Len(page.results) + 1,
                                                  cloneable |-> response.cloneable,
                                                  returned |-> hooked.returned])]
    /\ UNCHANGED <<csvTable, csvValue, csvOut, csvFile, csvInput, scraped>>
    /\ UNCHANGED <<exVars, bgVars, flowVars>>

\* clone.json() of the hook settles: its then or catch callback runs
PageCloneParsed ==
    /\ page.parsing # <<>>
    /\ \E signs \in BOOLEAN :
          page' = IF ~Head(page.parsing).parses
                  THEN [page EXCEPT !.parsing = Tail(@)]
                  ELSE sendDataToContentScript([page EXCEPT !.parsing = Tail(@)],
                                               Head(page.parsing).data, secretKey, signs,
                                               now)
    /\ UNCHANGED <<csvTable, csvValue, csvOut, csvFile, csvInput, scraped>>
    /\ UNCHANGED <<exVars, bgVars, flowVars>>

\* the script is loaded on some page of the site; checkCurrentUrl finds no
\* headers yet.  The content script may or may not have injected the secret.
PageInit ==
    /\ csvTable = "none"
    /\ csvValue = JsNull
    /\ csvOut = <<>>
    /\ csvFile = <<>>
    /\ csvInput = NoInput
    /\ scraped = NotScraped
    /\ page \in {[NoPage EXCEPT !.location = url] : url \in {UrlHome, UrlC1}}
    /\ ExIdle /\ BgIdle
    /\ FlowIdle

PageNext ==
    \/ SecretKeyReady
    \/ PageUrlChanges
    \/ PageFetchSettles
    \/ PageRequest
    \/ PageResponse
    \/ PageCloneParsed

SpecPage == PageInit /\ [][PageNext]_vars

\* the fetch hook alone: the page never changes its URL
HookNext ==
    \/ SecretKeyReady
    \/ PageRequest
    \/ PageResponse
    \/ PageCloneParsed

SpecHook == PageInit /\ [][HookNext]_vars

\* how many active fetches of that conversation are in that sequence
FetchesOf(fetches, conversationId) ==
    Cardinality({i \in DOMAIN fetches : fetches[i] = conversationId})

(***************************************************************************)
(* C34: a conversation id is in capturedIds only if a window message       *)
(* carrying the data of that conversation was posted to the content        *)
(* script; without the signing secret nothing is recorded, so that a later *)
(* visit still fetches.                                                    *)
(***************************************************************************)
C34_RecordedOnlyIfPosted ==
    \A conversationId \in page.capturedIds :
        \E i \in DOMAIN page.posted :
            conversationIdIn(page.posted[i].payload) = JsStr(conversationId)

(***************************************************************************)
(* C35: while an active fetch of a conversation is outstanding, or after   *)
(* its data was captured, a URL change to that conversation issues no      *)
(* further active fetch of it.                                             *)
(***************************************************************************)
C35_FetchedAtMostOnce ==
    [][\A conversationId \in {ConversationC1, ConversationC2} :
          (\/ FetchesOf(page.fetching, conversationId) > 0
           \/ conversationId \in page.capturedIds)
          => FetchesOf(page'.issued, conversationId)
                 = FetchesOf(page.issued, conversationId)]_vars

(***************************************************************************)
(* C36: the hooked window.fetch resolves to the very response object that  *)
(* the original fetch returned, for every request and whatever happens     *)
(* during interception.                                                    *)
(***************************************************************************)
C36_ReturnsOriginalResponse ==
    \A i \in DOMAIN page.results :
        page.results[i].settled = "resolved"
        => page.results[i].returned = [object |-> page.results[i].object, clone |-> FALSE]

\* the hook returned the response of a conversation request; the clone it
\* made was parsed while the secret was missing, so nothing was posted
C36_InterceptedWithoutSecret ==
    /\ \E i \in DOMAIN page.results :
          /\ page.results[i].settled = "resolved"
          /\ page.results[i].intercepted
          /\ page.results[i].cloneable
    /\ page.capturedIds # {} /\ page.posted = <<>> /\ page.parsing = <<>>
    /\ secretKey = NoKey

(***************************************************************************)
(* Content scripts of tabs on several hosts send conversation data to the  *)
(* background                                                              *)
(***************************************************************************)
HostCopilotStudio ==
    <<"c", "o", "p", "i", "l", "o", "t", "s", "t", "u", "d", "i", "o", ".",
      "m", "i", "c", "r", "o", "s", "o", "f", "t", ".", "c", "o", "m">>
HostSubdomain ==
    <<"w", "w", "w", ".", "c", "h", "a", "t", "g", "p", "t", ".", "c", "o",
      "m">>
HostLookAlike ==
    <<"e", "v", "i", "l", "c", "h", "a", "t", "g", "p", "t", ".", "c", "o",
      "m">>

\* the domains of the platforms the extension supports
SupportedDomains == {HostChatGPT, HostOpenAI, HostClaude, HostCopilot, HostCopilotStudio}

\* the hostname is one of those domains or a subdomain of one
IsSupportedHost(host) ==
    \E domain \in SupportedDomains :
        host = domain \/ endsWith(host, <<".">> \o domain)

TabHosts ==
    {HostChatGPT, HostOpenAI, HostClaude, HostCopilot, HostCopilotStudio, HostSubdomain,
     HostLookAlike, HostOther}

\* the conversations a content script of that platform may hold
TabPayloads(platform) ==
    CASE platform = "chatgpt" -> FlowChatGPTPayloads \cup OddPayloads
      [] platform = "claude" -> FlowClaudePayloads
      [] OTHER -> {Payload(JsUndef, Absent, Absent, r, SmallSize) :
                      r \in {Absent,
                             Collection(<<CopilotResult("human",
                                             Collection(<<ItemObj("text", <<"a">>)>>))>>)}}

\* the content script of a tab on that host sends the conversation it holds
HostSends ==
    /\ bgInbox = <<>>
    /\ ~bgLast.handled
    /\ timers = <<>> /\ downloads = <<>>
    /\ \E host \in TabHosts, platform \in Platforms :
         \E payload \in TabPayloads(platform) :
            bgInbox' = Append(bgInbox,
                           Sent(RuntimeMessage(TRUE, host, DataTypeOf(platform), platform,
                                               payload), "none"))
    /\ UNCHANGED <<csvVars, exVars, bgVars, now, popupVars, contentVars, tabInbox,
                   forwardSettled>>

HostsInit == OrchInit

HostsNext ==
    \/ HostSends
    \/ BackgroundReceives
    \/ OrchDownloadStarts

SpecHosts == HostsInit /\ [][HostsNext]_vars

(***************************************************************************)
(* C37: the background accepts conversation data sent from a tab if and    *)
(* only if the hostname of the tab is a supported platform domain or a     *)
(* subdomain of one: copilotstudio.microsoft.com is accepted, a look-alike *)
(* host such as evilchatgpt.com is rejected.                               *)
(***************************************************************************)
C37_AcceptsSupportedHostsOnly ==
    [][(/\ bgInbox # <<>>
        /\ bgInbox' = Tail(bgInbox)
        /\ Head(bgInbox).msg.senderIsExtension
        /\ Head(bgInbox).msg.type \in DataTypes)
       => (bgLast'.handled <=> IsSupportedHost(Head(bgInbox).msg.host))]_vars

(***************************************************************************)
(* The ChatGPT cache at capacity over more than an hour: the page captures *)
(* the oldest conversation again or a new one, the cleanup timer runs      *)
(* every five minutes.                                                     *)
(***************************************************************************)
MaxAgingTicks == 13

\* five minutes pass: everything in flight has been handled by then, and
\* the cleanup that is due runs before the clock moves on
AgingTick ==
    /\ now < MaxAgingTicks * CLEANUP_INTERVAL_MS
    /\ Quiet
    /\ CleanupDue =>
            cleanupOldConversations(capturedConversations, conversationTimestamps, now)
                = [conversations |-> capturedConversations,
                   timestamps |-> conversationTimestamps]
    /\ now' = now + CLEANUP_INTERVAL_MS
    /\ UNCHANGED <<csvVars, exVars, popupVars, contentVars, channelVars, bgVars>>

AgingInit ==
    /\ CsvIdle /\ ExIdle /\ BgIdle
    /\ now = CLEANUP_INTERVAL_MS
    /\ popup = [PopupReady("chatgpt", JsStr(ConversationC1)) EXCEPT !.open = FALSE,
                                                                    !.canExport = FALSE]
    /\ exportRateLimit = [lastExport |-> 0, recentExports |-> <<>>]
    /\ popupAwait = <<>>
    /\ secretKey = "k1"
    /\ \E n \in {MAX_STORED_CONVERSATIONS - 1, MAX_STORED_CONVERSATIONS} :
            /\ capturedConversations = StoredUpTo(n).conversations
            /\ conversationTimestamps = StoredUpTo(n).timestamps
    /\ claudeConversations = <<>>
    /\ verifying = {}
    /\ history = NoHistory
    /\ tabInbox = <<>>
    /\ bgInbox = <<>>
    /\ forwardSettled = <<>>

\* the popup is closed: CONVERSATION_READY reaches the background only,
\* which ignores it
AgingNext ==
    \/ CacheCapture
    \/ ChatGPTListenerResumes
    \/ BackgroundReceives
    \/ CleanupTimerFires
    \/ AgingTick

SpecAging == AgingInit /\ [][AgingNext]_vars

\* Map.prototype.keys(), as a set
Keys(map) == {map[i].key : i \in DOMAIN map}

(***************************************************************************)
(* C38: storing a conversation whose id is already in the cache replaces   *)
(* its data and evicts no other conversation, also when the cache holds    *)
(* MAX_STORED_CONVERSATIONS entries.                                       *)
(***************************************************************************)
C38_RestoreEvictsNothing ==
    [][\A call \in verifying :
          (/\ verifying' = verifying \ {call}
           /\ conversationTimestamps' # conversationTimestamps
           /\ MapHas(capturedConversations, ChatGPTConversationId(call.data.payload)))
          => Keys(capturedConversations') = Keys(capturedConversations)]_vars

(***************************************************************************)
(* C39: the conversation cache and its timestamp map have the same keys    *)
(* in every state, after every store, eviction and cleanup.                *)
(***************************************************************************)
C39_SameKeys == Keys(capturedConversations) = Keys(conversationTimestamps)

\* the store of conversation 51 evicted conversation 1 from the full cache
C39_AfterEviction ==
    /\ Len(capturedConversations) = MAX_STORED_CONVERSATIONS
    /\ MapHas(capturedConversations, CacheId(MAX_STORED_CONVERSATIONS + 1))
    /\ ~MapHas(capturedConversations, CacheId(1))
    /\ ~MapHas(conversationTimestamps, CacheId(1))

====
